---- MODULE Spec2Model ----
(***************************************************************************)
(* Verification model of the MeDoraH_NLP analysis scripts.                 *)
(*                                                                         *)
(* Three independent parts of the repository are modelled, each with its   *)
(* own specification over the shared variable list:                        *)
(*                                                                         *)
(*   SpecTree  - the condensed-tree hierarchy exports of the clustering    *)
(*               scripts (print_hierarchy_to_file, get_node_size,          *)
(*               build_hierarchy_html) and the click handler of the        *)
(*               generated report page;                                    *)
(*   SpecPipe  - the visualize_embeddings pipeline of the clustering       *)
(*               scripts (load, reduce_dimensions, cluster_embeddings,     *)
(*               the lazily created cluster_descriptions / color_map and   *)
(*               the exports);                                             *)
(*   SpecPairs - generate_previous_current_pairs.                          *)
(***************************************************************************)
EXTENDS Integers, Sequences, FiniteSets, TLC

VARIABLES
    \* ---- hierarchy exports (SpecTree)
    script,          \* which clustering script is running
    tree_df,         \* condensed_tree_.to_pandas(): rows (parent, child, child_size)
    cluster_map,     \* clusterer.prediction_data_.cluster_map: node id -> flat label
    tpc,             \* position in the hierarchy exports
    hierarchy_txt,   \* the hierarchy lines of hierarchical_clustering_results.txt
    hierarchy_html,  \* the markup of <div id="hierarchy-tree"> as the browser holds it
    \* ---- visualize_embeddings pipeline (SpecPipe)
    flags,           \* export_hierarchy_text, export_hierarchy_html, create_report
    pc,              \* index of the next call of the running script
    status,          \* "running", "done", or "failed" once a call has raised
    attrs,           \* the attributes the EmbeddingVisualizer instance has (hasattr)
    df,              \* self.df: column name -> values, one per row
    n_samples,       \* self.n_samples
    n_clusters,      \* self.n_clusters
    n_noise,         \* self.n_noise
    cluster_descriptions, \* self.cluster_descriptions: cluster id -> descriptor
    color_map,       \* self.color_map: cluster id -> colour
    log,             \* the calls made and the files written so far, in order
    \* ---- generate_previous_current_pairs (SpecPairs)
    data,            \* the utterances read from the input JSON
    ppc,             \* "pairing", "writing", "returned" ("idle" elsewhere)
    i,               \* index of the while loop (counted from 1)
    pairs,           \* the pairs appended so far
    idx,             \* index of the for loop (counted from 0, as enumerate does)
    pair_count,      \* the counter of written files
    files,           \* the output directory: file number N -> content
    written,         \* the numbers of the files written by this call, in order
    returned,        \* the value returned
    \* ---- transform_utterance_to_sentences (SpecSentences; it shares `data`)
    sent_pc,         \* "transforming", "written" ("idle" elsewhere)
    transformed_data, \* the items appended so far
    output_json,     \* the output file: whether it exists, and its content
    \* ---- the sample rows of extract_cluster_keywords (SpecSamples)
    samp_pc,         \* "describing", "done" ("idle" elsewhere)
    sample_table,    \* the rows of self.df: cluster, probability, triple
    top_samples_pool, \* cluster id -> the pool the samples were drawn from
    sample_rows,     \* cluster id -> the sample_rows of its descriptor
    \* ---- optimize_clustering_parameters (SpecOptimize)
    opt_pc,          \* "searching", "returned" ("idle" elsewhere)
    target_clusters_range, \* the inclusive target range <<low, high>>
    param_results,   \* the results of the candidates evaluated so far
    best_params,     \* the result returned
    \* ---- generate_html_report (SpecReport)
    report_pc,       \* index of the next step of generate_html_report (0 elsewhere)
    report_status,   \* "running", "returned", "exit_1" ("idle" elsewhere)
    template_file,   \* template_modern.html.j2: "present", "missing", "syntax_error"
    json_input,      \* the input file: its condition, the kind of its root, its turns
    output_html,     \* the output file: whether it exists, and its content
    output_before,   \* the output file as it was when the call started
    stderr,          \* the error messages printed
    failed_step,     \* the step that raised ("" when none has)
    \* ---- semantic_triple_analysis main (SpecTriples)
    triple_pc,       \* the next call of main, "returned" or "raised" ("idle" elsewhere)
    extracted_data,  \* extracted_data.json: its condition and its utterances
    triples_df,      \* the table load_data returned
    analyses,        \* the analyses and graph functions run so far, in order
    graph_files,     \* knowledge_graph.png and knowledge_graph.html
    \* ---- assess_2d_parameters of Cluster Assessment.py (SpecAssess)
    assess_pc,       \* "grid", "assessing" or "returned" of assess_2d_parameters ("idle" elsewhere)
    mcs_values,      \* the min_cluster_size values passed in
    ms_values,       \* the min_samples values passed in
    param_grid,      \* the (mcs, ms) pairs to assess
    validity,        \* what clusterer.relative_validity_ gave for each assessed pair
    assessment_results \* the list `results` of assess_2d_parameters

treeVars == <<tree_df, cluster_map, tpc, hierarchy_txt, hierarchy_html>>
pipeVars == <<flags, pc, status, attrs, df, n_samples, n_clusters, n_noise,
              cluster_descriptions, color_map, log>>

pairVars == <<data, ppc, i, pairs, idx, pair_count, files, written, returned>>
sentVars == <<sent_pc, transformed_data, output_json>>
sampVars == <<samp_pc, sample_table, top_samples_pool, sample_rows>>
optVars == <<opt_pc, target_clusters_range, param_results, best_params>>
reportVars == <<report_pc, report_status, template_file, json_input, output_html,
                output_before, stderr, failed_step>>
tripleVars == <<triple_pc, extracted_data, triples_df, analyses, graph_files>>
assessVars == <<assess_pc, mcs_values, ms_values, param_grid, validity, assessment_results>>

vars == <<script, treeVars, pipeVars, pairVars, sentVars, sampVars, optVars, reportVars, tripleVars, assessVars>>

(***************************************************************************)
(* Bounds of the model.                                                    *)
(***************************************************************************)
MaxRows == 3        \* rows of the condensed tree
MaxNode == 3        \* node ids are 0..MaxNode
MaxSize == 2        \* child_size values are 1..MaxSize
MaxSelected == 2    \* number of nodes selected as final flat clusters
MaxSamples == 3     \* rows of the embedding table
MaxLabel == 1       \* flat cluster labels are -1 (noise), 0..MaxLabel
MaxProb == 1        \* membership probabilities are the levels 0..MaxProb
MaxOutlier == 1     \* outlier scores are the levels 0..MaxOutlier
MaxUtterances == 5  \* utterances of the input transcript
MaxStale == 3       \* pair files left in the output directory by an earlier run
MaxItems == 2       \* utterances of the input of transform_utterance_to_sentences
MaxOrder == 11      \* "order" values are 9..MaxOrder
MaxChunks == 2      \* pieces the sentence pattern splits one utterance into
MaxTableRows == 6   \* rows of the table the claim and WordNet samples are taken from
MaxGeminiRows == 4  \* rows of the table the HDBSCAN+Gemini samples are taken from
MaxTriples == 3     \* distinct (subject, predicate, object) triples
PoolHead == 3       \* rows kept by head(200) of the HDBSCAN+Gemini report, scaled down
n_samples_to_show == 2 \* n_samples_to_show=35 of the HDBSCAN+Gemini report, scaled down
MaxTurns == 2       \* speaker turns of the input of generate_html_report
MaxExtractions == 2 \* extractions of one utterance of extracted_data.json
MaxClusterCount == 3 \* cluster counts a fit can give are 0..MaxClusterCount

Nodes == 0..MaxNode

\* Python's None where a label is expected (flat labels are >= 0, noise is -1).
NoLabel == -2

\* The scripts that contain the hierarchy exports.
HierarchyScripts == {"claim", "wordnet", "gemini"}

(***************************************************************************)
(* Generic helpers.                                                        *)
(***************************************************************************)
RECURSIVE SumSeq(_)
SumSeq(s) == IF s = <<>> THEN 0 ELSE Head(s) + SumSeq(Tail(s))

RECURSIVE Concat(_)
\* "".join(seq of strings), on token sequences
Concat(ss) == IF ss = <<>> THEN <<>> ELSE Head(ss) \o Concat(Tail(ss))

RECURSIVE SortedDesc(_)
\* sorted(list(S), reverse=True)
SortedDesc(S) ==
    IF S = {} THEN <<>>
    ELSE LET m == CHOOSE x \in S : \A y \in S : y <= x
         IN  <<m>> \o SortedDesc(S \ {m})

RECURSIVE SortedAsc(_)
\* sorted(S)
SortedAsc(S) ==
    IF S = {} THEN <<>>
    ELSE LET m == CHOOSE x \in S : \A y \in S : x <= y
         IN  <<m>> \o SortedAsc(S \ {m})

(***************************************************************************)
(* The condensed tree as the exports read it.                              *)
(***************************************************************************)
Rows == [parent : Nodes, child : Nodes, child_size : 1..MaxSize]

\* The tables hdbscan can hand over: every node is the child of at most one
\* row (node_data = tree_df.set_index('child').to_dict('index') raises on a
\* repeated child) and no row is its own parent.
TreeTables ==
    { t \in UNION { [1..k -> Rows] : k \in 0..MaxRows } :
        /\ \A ii, j \in DOMAIN t : t[ii].child = t[j].child => ii = j
        /\ \A ii \in DOMAIN t : t[ii].parent # t[ii].child }

Parents(t) == { t[ii].parent : ii \in DOMAIN t }
Children(t) == { t[ii].child : ii \in DOMAIN t }
TreeNodes(t) == Parents(t) \cup Children(t)

\* parent_children = tree_df.groupby('parent')['child'].apply(list).to_dict()
\* parent_children[node]: the children of node in row order (<<>> when node
\* is no key of the dict; the callers test `node in parent_children` first).
parent_children(node) ==
    LET RECURSIVE Walk(_)
        Walk(ii) == IF ii > Len(tree_df) THEN <<>>
                   ELSE (IF tree_df[ii].parent = node
                         THEN <<tree_df[ii].child>> ELSE <<>>) \o Walk(ii + 1)
    IN  Walk(1)

\* `node in parent_children`
is_parent(node) == node \in Parents(tree_df)

\* node_sizes / node_sizes_direct = dict(zip(tree_df['child'], tree_df['child_size']))
HasDirectSize(node) == node \in Children(tree_df)
node_sizes_direct(node) ==
    LET ii == CHOOSE ii \in DOMAIN tree_df : tree_df[ii].child = node
    IN  tree_df[ii].child_size

root_nodes_ascending == SortedAsc(Parents(tree_df) \ Children(tree_df))

\* root_nodes = sorted(list(set(parent_children.keys()) - set(tree_df['child'])), reverse=True)
root_nodes == SortedDesc(Parents(tree_df) \ Children(tree_df))

\* The size without the sum over the children.
get_node_size_unsummed(node) ==
    IF HasDirectSize(node) THEN node_sizes_direct(node) ELSE 1

\* get_node_size(node) of export_hierarchical_report_html; the memoized_sizes
\* cache only saves recomputation and is not state the result depends on.
RECURSIVE get_node_size(_)
get_node_size(node) ==
    IF HasDirectSize(node) THEN node_sizes_direct(node)
    ELSE IF is_parent(node)
         THEN LET ch == parent_children(node)
              IN  SumSeq([k \in DOMAIN ch |-> get_node_size(ch[k])])
         ELSE 1

\* size = node_sizes.get(node, sum(node_sizes.get(c, 1) for c in parent_children.get(node, [])))
text_node_size(node) ==
    IF HasDirectSize(node) THEN node_sizes_direct(node)
    ELSE LET ch == parent_children(node)
         IN  SumSeq([k \in DOMAIN ch |->
                        IF HasDirectSize(ch[k]) THEN node_sizes_direct(ch[k]) ELSE 1])

\* `if size > 1:` of print_hierarchy_to_file
printed_in_text(size) == size > 1

\* One written line "{'  ' * level}|- Node {node} (size: {size})".
TextLine(level, node, size) == [level |-> level, node |-> node, size |-> size]

\* print_hierarchy_to_file(node, level): the lines it writes, in order.
RECURSIVE print_hierarchy_to_file(_, _)
print_hierarchy_to_file(node, level) ==
    LET size == text_node_size(node)
        ch == parent_children(node)
    IN  IF printed_in_text(size)
        THEN <<TextLine(level, node, size)>> \o
             (IF is_parent(node)
              THEN Concat([k \in DOMAIN ch |-> print_hierarchy_to_file(ch[k], level + 1)])
              ELSE <<>>)
        ELSE <<>>

\* cluster_id_to_node = {label: node for node, label in cluster_map.items()}
\* cluster_map is built by hdbscan as {node: n for n, node in
\* enumerate(sorted(selected clusters))}, so it is injective and the inversion
\* loses no entry.
cluster_id_to_node ==
    [ cid \in { cluster_map[n] : n \in DOMAIN cluster_map } |->
        CHOOSE n \in DOMAIN cluster_map : cluster_map[n] = cid ]

\* The lookup run over cluster_map.items() itself, without the inversion.
final_cluster_label_uninverted(node) ==
    IF \E n \in DOMAIN cluster_map : cluster_map[n] = node
    THEN CHOOSE n \in DOMAIN cluster_map : cluster_map[n] = node
    ELSE NoLabel

\* final_cluster_label = next((cid for cid, nid in cluster_id_to_node.items() if nid == node), None)
final_cluster_label(node) ==
    IF \E cid \in DOMAIN cluster_id_to_node : cluster_id_to_node[cid] = node
    THEN CHOOSE cid \in DOMAIN cluster_id_to_node : cluster_id_to_node[cid] = node
    ELSE NoLabel

(***************************************************************************)
(* The generated markup, as a sequence of tags.  An "li" tag stands for    *)
(* <li><div class="node-content">...</div> and carries what the div shows: *)
(* the node id, its size, the text of the .toggle span and the "Cluster c" *)
(* links appended to the node details.  A "ul" tag carries its class.      *)
(* The other fields of a tag are blank.                                    *)
(***************************************************************************)
Tag(tag, node, size, toggle, links, cls) ==
    [tag |-> tag, node |-> node, size |-> size, toggle |-> toggle,
     links |-> links, cls |-> cls]

\* <a href="#cluster-{label}" class="final-cluster-node">Cluster {label}</a>
ClusterLink(label) == [href |-> label, text |-> label]

OpenLi(node, size, toggle, links) == Tag("li", node, size, toggle, links, "")
CloseLi == Tag("/li", -1, 0, "", <<>>, "")
OpenUl(cls) == Tag("ul", -1, 0, "", <<>>, cls)
CloseUl == Tag("/ul", -1, 0, "", <<>>, "")

\* The toggle text a node with visible children is written with: "[+]" in the
\* claim and HDBSCAN+Gemini reports, "[-]" in the WordNet report.
InitialToggle == IF script = "wordnet" THEN "[-]" ELSE "[+]"

\* The class the child list is written with: <ul class="collapsed"> in the claim
\* and HDBSCAN+Gemini reports, a plain <ul> in the WordNet report.
InitialUlClass == IF script = "wordnet" THEN "" ELSE "collapsed"

\* has_visible_children = is_parent and any(get_node_size(child) > 1 for child in parent_children[node])
has_visible_children(node) ==
    /\ is_parent(node)
    /\ \E k \in DOMAIN parent_children(node) : get_node_size(parent_children(node)[k]) > 1

\* The test written as `size < 1`.
hidden_in_html_lt1(size) == size < 1

\* `if size <= 1: return ""` of build_hierarchy_html
hidden_in_html(size) == size <= 1

\* build_hierarchy_html(node, level): the markup it returns.
RECURSIVE build_hierarchy_html(_)
build_hierarchy_html(node) ==
    LET size == get_node_size(node)
        ch == parent_children(node)
        child_html == Concat([k \in DOMAIN ch |-> build_hierarchy_html(ch[k])])
    IN  IF hidden_in_html(size) THEN <<>>
        ELSE <<OpenLi(node, size,
                      IF has_visible_children(node) THEN InitialToggle ELSE " ",
                      IF final_cluster_label(node) # NoLabel
                      THEN <<ClusterLink(final_cluster_label(node))>> ELSE <<>>)>>
             \o (IF has_visible_children(node) /\ child_html # <<>>
                 THEN <<OpenUl(InitialUlClass)>> \o child_html \o <<CloseUl>>
                 ELSE <<>>)
             \o <<CloseLi>>

(***************************************************************************)
(* The page's click handler.                                               *)
(***************************************************************************)
LiIndexes(html) == { ii \in DOMAIN html : html[ii].tag = "li" }

\* The index of the </li> that closes the <li> at index ii.
RECURSIVE CloseOf(_, _, _)
CloseOf(html, j, depth) ==
    IF j > Len(html) THEN j
    ELSE IF html[j].tag = "li" THEN CloseOf(html, j + 1, depth + 1)
    ELSE IF html[j].tag = "/li"
         THEN (IF depth = 0 THEN j ELSE CloseOf(html, j + 1, depth - 1))
    ELSE CloseOf(html, j + 1, depth)

\* parentLi.querySelector('ul'): the first <ul> inside the <li> at index ii in
\* document order, 0 when there is none.
querySelectorUl(html, ii) ==
    LET inside == { j \in (ii + 1)..(CloseOf(html, ii + 1, 0) - 1) : html[j].tag = "ul" }
    IN  IF inside = {} THEN 0
        ELSE CHOOSE j \in inside : \A k \in inside : j <= k

\* childUl.classList.toggle('collapsed')
classListToggle(cls) == IF cls = "collapsed" THEN "" ELSE "collapsed"

toggleText_swapped(cls) == IF cls = "collapsed" THEN "[-]" ELSE "[+]"

\* toggle.textContent = childUl.classList.contains('collapsed') ? '[+]' : '[-]'
toggleText(cls) == IF cls = "collapsed" THEN "[+]" ELSE "[-]"

\* The listener on #hierarchy-tree for a click inside the .node-content of the
\* <li> at index ii.
OnClick(html, ii) ==
    LET childUl == querySelectorUl(html, ii)
    IN  IF childUl # 0
        THEN LET cls == classListToggle(html[childUl].cls)
             IN  [html EXCEPT ![childUl].cls = cls, ![ii].toggle = toggleText(cls)]
        ELSE html

(***************************************************************************)
(* SpecTree: the hierarchy exports and the clicks on the report page.      *)
(***************************************************************************)
\* hdbscan's cluster_map for a set `sel` of selected nodes.
ClusterMapOf(sel) ==
    LET order == SortedAsc(sel)
    IN  [ n \in sel |-> (CHOOSE k \in DOMAIN order : order[k] = n) - 1 ]

\* The pipeline variables while the hierarchy exports are looked at alone.
PipeIdle ==
    /\ flags = [text |-> TRUE, html |-> TRUE, report |-> TRUE]
    /\ pc = 0
    /\ status = "idle"
    /\ attrs = {}
    /\ df = <<>>
    /\ n_samples = 0
    /\ n_clusters = 0
    /\ n_noise = 0
    /\ cluster_descriptions = <<>>
    /\ color_map = <<>>
    /\ log = <<>>

\* The variables of generate_previous_current_pairs while it is not looked at.
PairsIdle ==
    /\ data = <<>>
    /\ ppc = "idle"
    /\ i = 0
    /\ pairs = <<>>
    /\ idx = 0
    /\ pair_count = 0
    /\ files = <<>>
    /\ written = <<>>
    /\ returned = 0

\* The variables of transform_utterance_to_sentences while it is not looked at.
SentencesIdle ==
    /\ sent_pc = "idle"
    /\ transformed_data = <<>>
    /\ output_json = [exists |-> FALSE, content |-> <<>>]

\* The variables of the sample extraction while it is not looked at.
SamplesIdle ==
    /\ samp_pc = "idle"
    /\ sample_table = <<>>
    /\ top_samples_pool = <<>>
    /\ sample_rows = <<>>

\* The variables of optimize_clustering_parameters while it is not looked at.
OptimizeIdle ==
    /\ opt_pc = "idle"
    /\ target_clusters_range = <<0, 0>>
    /\ param_results = <<>>
    /\ best_params = <<>>

\* The variables of generate_html_report while it is not looked at.
ReportIdle ==
    /\ report_pc = 0
    /\ report_status = "idle"
    /\ template_file = "present"
    /\ json_input = <<>>
    /\ output_html = [exists |-> FALSE, content |-> ""]
    /\ output_before = [exists |-> FALSE, content |-> ""]
    /\ stderr = <<>>
    /\ failed_step = ""

\* The variables of semantic_triple_analysis while it is not looked at.
TriplesIdle ==
    /\ triple_pc = "idle"
    /\ extracted_data = <<>>
    /\ triples_df = <<>>
    /\ analyses = <<>>
    /\ graph_files = <<>>

\* The variables of assess_2d_parameters while it is not looked at.
AssessIdle ==
    /\ assess_pc = "idle"
    /\ mcs_values = <<>>
    /\ ms_values = <<>>
    /\ param_grid = <<>>
    /\ validity = <<>>
    /\ assessment_results = <<>>

InitTree ==
    /\ script \in HierarchyScripts
    /\ tree_df \in TreeTables
    /\ \E sel \in SUBSET Nodes :
          /\ Cardinality(sel) <= MaxSelected
          /\ cluster_map = ClusterMapOf(sel)
    /\ tpc = "clustered"
    /\ hierarchy_txt = <<>>
    /\ hierarchy_html = <<>>
    /\ PipeIdle
    /\ PairsIdle
    /\ SentencesIdle
    /\ SamplesIdle
    /\ OptimizeIdle
    /\ ReportIdle
    /\ TriplesIdle
    /\ AssessIdle

\* The hierarchy section of export_hierarchical_clustering_results.
ExportHierarchyText ==
    /\ tpc = "clustered"
    /\ hierarchy_txt' =
          Concat([k \in DOMAIN root_nodes |-> print_hierarchy_to_file(root_nodes[k], 0)])
    /\ tpc' = "text"
    /\ UNCHANGED <<script, tree_df, cluster_map, hierarchy_html, pipeVars, pairVars, sentVars, sampVars, optVars, reportVars, tripleVars, assessVars>>

\* The hierarchy section of export_hierarchical_report_html; the page then
\* shows the markup as written.
ExportHierarchyHtml ==
    /\ tpc \in {"clustered", "text"}
    /\ hierarchy_html' =
          <<OpenUl("")>>
          \o Concat([k \in DOMAIN root_nodes |-> build_hierarchy_html(root_nodes[k])])
          \o <<CloseUl>>
    /\ tpc' = "html"
    /\ UNCHANGED <<script, tree_df, cluster_map, hierarchy_txt, pipeVars, pairVars, sentVars, sampVars, optVars, reportVars, tripleVars, assessVars>>

\* A click on a tree node of the page.
Click ==
    /\ tpc = "html"
    /\ \E ii \in LiIndexes(hierarchy_html) :
          hierarchy_html' = OnClick(hierarchy_html, ii)
    /\ UNCHANGED <<script, tree_df, cluster_map, tpc, hierarchy_txt, pipeVars, pairVars, sentVars, sampVars, optVars, reportVars, tripleVars, assessVars>>

NextTree == ExportHierarchyText \/ ExportHierarchyHtml \/ Click

SpecTree == InitTree /\ [][NextTree]_vars

(***************************************************************************)
(* Notions the claims about the hierarchy are stated with.                 *)
(***************************************************************************)
RootIds == Parents(tree_df) \ Children(tree_df)

RowOf(n) == CHOOSE ii \in DOMAIN tree_df : tree_df[ii].child = n
ParentOf(n) == tree_df[RowOf(n)].parent

\* n and the nodes above it, following the parent column.
RECURSIVE AncestorsOrSelf(_, _)
AncestorsOrSelf(n, seen) ==
    IF n \in seen THEN seen
    ELSE IF n \notin Children(tree_df) THEN seen \cup {n}
    ELSE AncestorsOrSelf(ParentOf(n), seen \cup {n})

ReachableFromRoot(n) == AncestorsOrSelf(n, {}) \cap RootIds # {}

\* Reachable from a root through nodes of size greater than 1 only.
Shown(n) ==
    /\ ReachableFromRoot(n)
    /\ \A a \in AncestorsOrSelf(n, {}) : get_node_size(a) > 1

LiOf(html, n) == { ii \in LiIndexes(html) : html[ii].node = n }

CountTag(html, a, b, tag) == Cardinality({ k \in a..b : html[k].tag = tag })

\* The <li> that directly encloses the tag at index ii, 0 when there is none.
EnclosingLi(html, ii) ==
    LET open == { j \in LiIndexes(html) :
                    /\ j < ii
                    /\ CountTag(html, j + 1, ii - 1, "li")
                          = CountTag(html, j + 1, ii - 1, "/li") }
    IN  IF open = {} THEN 0 ELSE CHOOSE j \in open : \A k \in open : k <= j

\* The <li> at index ii has a child list of its own.
HasChildList(html, ii) == ii < Len(html) /\ html[ii + 1].tag = "ul"

htmlWritten == tpc = "html"
textWritten == tpc = "text" \/ (tpc = "html" /\ hierarchy_txt # <<>>)

(***************************************************************************)
(* C1: in the HTML and the text hierarchy export every emitted node has a  *)
(* size greater than 1, and neither a node of computed size 1 or less nor  *)
(* anything below such a node is emitted.                                  *)
(***************************************************************************)
C1_SmallNodesHidden ==
    /\ htmlWritten =>
          \A ii \in LiIndexes(hierarchy_html) :
             /\ hierarchy_html[ii].size > 1
             /\ \A a \in AncestorsOrSelf(hierarchy_html[ii].node, {}) : get_node_size(a) > 1
    /\ \A k \in DOMAIN hierarchy_txt :
          /\ hierarchy_txt[k].size > 1
          /\ \A a \in AncestorsOrSelf(hierarchy_txt[k].node, {}) : text_node_size(a) > 1

\* Both exports are written; a node of size 1 hangs under an emitted node and
\* has a child of size 2 or more, which is left out.
C1_Witness ==
    /\ htmlWritten
    /\ hierarchy_txt # <<>>
    /\ \E n \in Children(tree_df) :
          /\ get_node_size(n) <= 1
          /\ LiOf(hierarchy_html, ParentOf(n)) # {}
          /\ \E c \in Children(tree_df) :
                /\ ParentOf(c) = n
                /\ get_node_size(c) > 1
                /\ LiOf(hierarchy_html, c) = {}

(***************************************************************************)
(* C2: on the report page, initially and after any clicks, a node with a   *)
(* rendered child list shows "[+]" exactly when the list is collapsed and  *)
(* "[-]" exactly when it is expanded; a node without rendered children has *)
(* a blank toggle, no child list, and a click on it changes nothing.       *)
(***************************************************************************)
C2_ToggleMatchesList ==
    htmlWritten =>
       \A ii \in LiIndexes(hierarchy_html) :
          IF HasChildList(hierarchy_html, ii)
          THEN /\ hierarchy_html[ii].toggle \in {"[+]", "[-]"}
               /\ hierarchy_html[ii].toggle = "[+]"
                     <=> hierarchy_html[ii + 1].cls = "collapsed"
          ELSE /\ hierarchy_html[ii].toggle = " "
               /\ hierarchy_html[ii + 1].tag = "/li"
               /\ OnClick(hierarchy_html, ii) = hierarchy_html

\* A page on which one branch has been expanded while another is collapsed,
\* next to a node without children.
C2_Witness ==
    /\ htmlWritten
    /\ script = "claim"
    /\ \E ii, j, k \in LiIndexes(hierarchy_html) :
          /\ HasChildList(hierarchy_html, ii) /\ hierarchy_html[ii].toggle = "[-]"
          /\ HasChildList(hierarchy_html, j) /\ hierarchy_html[j].toggle = "[+]"
          /\ ~HasChildList(hierarchy_html, k)

(***************************************************************************)
(* C3: the HTML export renders each node exactly once, nested inside its   *)
(* parent's list item, roots first-level and in descending id order,       *)
(* siblings in the order of their rows.                                    *)
(***************************************************************************)
\* The layout of the rendered items: first-level items are roots in descending
\* id order, every other item sits directly in the item of its parent node,
\* and siblings follow the order of their rows.
RenderedLayout ==
    /\ \A ii \in LiIndexes(hierarchy_html) :
          LET n == hierarchy_html[ii].node
              e == EnclosingLi(hierarchy_html, ii)
          IN  IF n \in RootIds
              THEN e = 0
              ELSE /\ n \in Children(tree_df)
                   /\ e # 0
                   /\ hierarchy_html[e].node = ParentOf(n)
    /\ \A ii, j \in LiIndexes(hierarchy_html) :
          (/\ ii < j
           /\ EnclosingLi(hierarchy_html, ii) = EnclosingLi(hierarchy_html, j)) =>
             IF EnclosingLi(hierarchy_html, ii) = 0
             THEN hierarchy_html[ii].node > hierarchy_html[j].node
             ELSE RowOf(hierarchy_html[ii].node) < RowOf(hierarchy_html[j].node)

C4_ClusterLinkIffSelected ==
    htmlWritten =>
       \A ii \in LiIndexes(hierarchy_html) :
          LET n == hierarchy_html[ii].node
              links == hierarchy_html[ii].links
          IN  /\ Len(links) <= 1
              /\ Len(links) = 1 <=> n \in DOMAIN cluster_map
              /\ \A k \in DOMAIN links :
                    /\ links[k].href = cluster_map[n]
                    /\ links[k].text = cluster_map[n]

\* A rendered node that is flat cluster 1 next to a rendered node without link.
C4_Witness ==
    /\ htmlWritten
    /\ \E ii, j \in LiIndexes(hierarchy_html) :
          /\ hierarchy_html[ii].links = <<ClusterLink(1)>>
          /\ cluster_map[hierarchy_html[ii].node] = 1
          /\ hierarchy_html[j].links = <<>>

(***************************************************************************)
(* C18: for the same condensed tree, the text export                       *)
(* (print_hierarchy_to_file) and the HTML export (build_hierarchy_html     *)
(* with get_node_size) list the same nodes, in the same pre-order, at the  *)
(* same depths and with the same sizes.                                    *)
(***************************************************************************)
\* The hierarchy lines the text export writes for the tree.
TextExport ==
    Concat([k \in DOMAIN root_nodes |-> print_hierarchy_to_file(root_nodes[k], 0)])

\* The number of <li> elements open around the tag at index ii.
LiDepth(html, ii) ==
    CountTag(html, 1, ii - 1, "li") - CountTag(html, 1, ii - 1, "/li")

\* The nodes of the markup in document order, each with its nesting depth and
\* the size it shows.
HtmlListing(html) ==
    LET lis == SortedAsc(LiIndexes(html))
    IN  [k \in DOMAIN lis |->
           TextLine(LiDepth(html, lis[k]), html[lis[k]].node, html[lis[k]].size)]

C18_TextAndHtmlListSameNodes ==
    /\ textWritten => hierarchy_txt = TextExport
    /\ htmlWritten => HtmlListing(hierarchy_html) = TextExport

\* Both exports written for a tree of three levels with a child of size 1
\* that neither lists.
C18_Witness ==
    /\ htmlWritten
    /\ Len(hierarchy_txt) = 3
    /\ hierarchy_txt[3].level = 2
    /\ \E ii \in DOMAIN tree_df : tree_df[ii].child_size = 1
    /\ HtmlListing(hierarchy_html) = hierarchy_txt

(***************************************************************************)
(* SpecPipe: one run of a clustering script.  "claim", "wordnet" and       *)
(* "gemini" run visualize_embeddings; "assessment" runs the __main__ block *)
(* of Cluster Assessment.py, whose EmbeddingVisualizer is a cut-down copy. *)
(* UMAP, HDBSCAN and the plotting calls are external: their results are    *)
(* drawn from small sets, the text processing of the keyword extraction is *)
(* left out, and the condensed tree is looked at in SpecTree.              *)
(***************************************************************************)
Scripts == {"claim", "wordnet", "gemini", "assessment"}

Labels == -1..MaxLabel
ProbLevels == 0..MaxProb
OutlierLevels == 0..MaxOutlier

\* The calls of visualize_embeddings, in program order.
visualize_embeddings(scr, f) ==
    <<"__init__", "reduce_dimensions", "cluster_embeddings">>
    \o (IF scr = "wordnet" THEN <<"extract_cluster_keywords">> ELSE <<>>)
    \o <<"create_beautiful_visualization">>
    \o (IF f.text THEN <<"export_hierarchical_clustering_results">> ELSE <<>>)
    \o (IF f.html THEN <<"export_hierarchical_report_html">> ELSE <<>>)
    \o (IF f.report THEN <<"create_interactive_cluster_report">> ELSE <<>>)

\* The calls of the __main__ block of Cluster Assessment.py on base_viz.
assessment_main ==
    <<"__init__", "reduce_dimensions", "assess_2d_parameters",
      "cluster_embeddings", "create_beautiful_visualization">>

Steps == IF script = "assessment" THEN assessment_main
         ELSE visualize_embeddings(script, flags)

Running(method) ==
    /\ status = "running"
    /\ pc \in DOMAIN Steps
    /\ Steps[pc] = method

\* cluster_embeddings with the probabilities_ not stored.
assigned_columns_without_probability(scr) ==
    IF scr = "assessment" THEN {"cluster"} ELSE {"cluster", "outlier_score"}

\* The columns cluster_embeddings assigns.
assigned_columns(scr) ==
    IF scr = "assessment" THEN {"cluster", "probability"}
    ELSE {"cluster", "probability", "outlier_score"}

ColumnValues(col) ==
    IF col = "cluster" THEN Labels
    ELSE IF col = "probability" THEN ProbLevels
    ELSE OutlierLevels

\* self.df["cluster"].unique()
unique_clusters(table) == { table["cluster"][ii] : ii \in DOMAIN table["cluster"] }

\* cluster_df = self.df[self.df["cluster"] == cluster_id]: its row numbers
cluster_rows(table, cluster_id) ==
    { ii \in DOMAIN table["cluster"] : table["cluster"][ii] = cluster_id }

\* len(set(labels_)) - (1 if -1 in labels_ else 0)
count_clusters(labels) ==
    LET found == { labels[ii] : ii \in DOMAIN labels }
    IN  Cardinality(found) - (IF -1 \in found THEN 1 ELSE 0)

\* sum(self.df["cluster"] == -1)
count_noise(labels) == Cardinality({ ii \in DOMAIN labels : labels[ii] = -1 })

\* The cluster ids extract_cluster_keywords builds a descriptor for, with the
\* `continue` on -1 left out.
described_clusters_with_noise(table) == unique_clusters(table)

\* The cluster ids extract_cluster_keywords builds a descriptor for:
\* for cluster_id in sorted(df["cluster"].unique()): if cluster_id == -1: continue
described_clusters(table) == unique_clusters(table) \ {-1}

\* extract_cluster_keywords: the new value of self.cluster_descriptions
\* ('size': len(cluster_df); keywords and sample rows are not modelled here).
extract_cluster_keywords(table) ==
    [ cluster_id \in described_clusters(table) |->
        [size |-> Cardinality(cluster_rows(table, cluster_id))] ]

\* generate_cluster_colors: the new value of self.color_map; colour i of the
\* n_clusters generated colours is written i, the grey of the noise points -1.
generate_cluster_colors(table) ==
    LET unique == SortedAsc(unique_clusters(table) \ {-1})
    IN  [ c \in unique_clusters(table) \cup {-1} |->
            IF c = -1 THEN -1
            ELSE (CHOOSE k \in DOMAIN unique : unique[k] = c) - 1 ]

\* The methods without their hasattr tests.
ensured_nothing(scr, method) == <<>>

\* The attributes a method creates first when the instance lacks them
\* (`if not hasattr(self, ...): self....()`), in the order of its tests.
ensured(scr, method) ==
    IF scr = "assessment" THEN <<>>
    ELSE IF method = "export_hierarchical_clustering_results"
         THEN <<"cluster_descriptions">>
    ELSE IF method = "export_hierarchical_report_html"
         THEN <<"cluster_descriptions", "color_map">>
    ELSE IF method \in {"create_interactive_cluster_report",
                        "create_beautiful_visualization"}
         THEN <<"color_map", "cluster_descriptions">>
    ELSE <<>>

\* The attributes of the instance a method reads after those tests.
reads(scr, method) ==
    IF scr = "assessment" THEN {}
    ELSE IF method = "export_hierarchical_clustering_results"
         THEN {"df", "n_samples", "n_clusters", "n_noise", "clusterer",
               "cluster_descriptions"}
    ELSE IF method = "export_hierarchical_report_html"
         THEN {"df", "n_samples", "n_clusters", "n_noise", "clusterer",
               "cluster_descriptions", "color_map"}
    ELSE IF method = "create_interactive_cluster_report"
         THEN {"df", "color_map"}
    ELSE IF method = "create_beautiful_visualization"
         THEN {"df", "n_clusters", "cluster_descriptions", "color_map"}
    ELSE {}

\* The file a method writes (the create_beautiful_visualization of Cluster
\* Assessment.py is a placeholder that writes nothing).
output_files(scr, method) ==
    IF scr = "assessment" THEN <<>>
    ELSE IF method = "export_hierarchical_clustering_results"
         THEN <<"hierarchical_clustering_results.txt">>
    ELSE IF method = "export_hierarchical_report_html"
         THEN <<"hierarchical_report.html">>
    ELSE IF method = "create_interactive_cluster_report"
         THEN <<"cluster_analysis_report.html">>
    ELSE IF method = "create_beautiful_visualization"
         THEN <<"enhanced_clustering.html">>
    ELSE <<>>

\* The method that builds an attribute.
builder(attr) ==
    IF attr = "color_map" THEN "generate_cluster_colors" ELSE "extract_cluster_keywords"

OutputFiles ==
    {"hierarchical_clustering_results.txt", "hierarchical_report.html",
     "cluster_analysis_report.html", "enhanced_clustering.html"}

InitPipe ==
    /\ script \in Scripts
    /\ flags \in [text : BOOLEAN, html : BOOLEAN, report : BOOLEAN]
    /\ script = "assessment" => flags = [text |-> FALSE, html |-> FALSE, report |-> FALSE]
    /\ pc = 1
    /\ status = "running"
    /\ attrs = {}
    /\ df = <<>>
    /\ n_samples = 0
    /\ n_clusters = 0
    /\ n_noise = 0
    /\ cluster_descriptions = <<>>
    /\ color_map = <<>>
    /\ log = <<>>
    /\ tree_df = <<>>
    /\ cluster_map = <<>>
    /\ tpc = "idle"
    /\ hierarchy_txt = <<>>
    /\ hierarchy_html = <<>>
    /\ PairsIdle
    /\ SentencesIdle
    /\ SamplesIdle
    /\ OptimizeIdle
    /\ ReportIdle
    /\ TriplesIdle
    /\ AssessIdle

\* The position after the current call has returned.
Advance ==
    /\ pc' = pc + 1
    /\ status' = IF pc + 1 > Len(Steps) THEN "done" ELSE "running"

\* The current call raises: the run ends there.
Raise ==
    /\ pc' = pc
    /\ status' = "failed"

\* EmbeddingVisualizer(parquet_path): the table is read, n_samples = len(df).
Construct ==
    /\ Running("__init__")
    /\ \E n \in 1..MaxSamples :
          /\ df' = ("embedding" :> [ii \in 1..n |-> 0])
          /\ n_samples' = n
    /\ attrs' = {"random_state", "df", "X", "n_samples"}
    /\ log' = Append(log, "__init__")
    /\ Advance
    /\ UNCHANGED <<script, flags, n_clusters, n_noise, cluster_descriptions,
                   color_map, treeVars, pairVars, sentVars, sampVars, optVars, reportVars, tripleVars, assessVars>>

\* reduce_dimensions: the projection and its normalised copy are added.
ReduceDimensions ==
    /\ Running("reduce_dimensions")
    /\ IF "X" \in attrs
       THEN /\ df' = [c \in {"x", "y", "x_norm", "y_norm"} |->
                         [ii \in 1..n_samples |-> 0]] @@ df
            /\ attrs' = attrs \cup {"reducer", "XY", "XY_normalized"}
            /\ log' = Append(log, "reduce_dimensions")
            /\ Advance
       ELSE /\ Raise
            /\ UNCHANGED <<df, attrs, log>>
    /\ UNCHANGED <<script, flags, n_samples, n_clusters, n_noise,
                   cluster_descriptions, color_map, treeVars, pairVars, sentVars, sampVars, optVars, reportVars, tripleVars, assessVars>>

\* assess_2d_parameters and the choice of the parameters in Cluster
\* Assessment.py: base_viz is only read; without a valid result the block ends.
Assess2dParameters ==
    /\ Running("assess_2d_parameters")
    /\ log' = Append(log, "assess_2d_parameters")
    /\ \E found \in BOOLEAN :
          IF found THEN Advance ELSE pc' = pc /\ status' = "done"
    /\ UNCHANGED <<script, flags, attrs, df, n_samples, n_clusters, n_noise,
                   cluster_descriptions, color_map, treeVars, pairVars, sentVars, sampVars, optVars, reportVars, tripleVars, assessVars>>

\* The condensed trees the fit leaves in self.clusterer here: the root split
\* off one child of any size (SpecTree looks at the trees in full).
FittedTrees ==
    { <<[parent |-> MaxNode, child |-> 0, child_size |-> s]>> : s \in 1..MaxSize }

\* cluster_embeddings: HDBSCAN is fitted on XY_normalized and its labels_,
\* probabilities_ and outlier_scores_ (one value per row) become columns; the
\* fitted clusterer holds the condensed tree and the cluster_map.
ClusterEmbeddings ==
    /\ Running("cluster_embeddings")
    /\ IF "XY_normalized" \in attrs
       THEN \E fit \in [ {"cluster", "probability", "outlier_score"} ->
                           [1..n_samples -> Labels \cup ProbLevels \cup OutlierLevels] ] :
               /\ \A c \in DOMAIN fit : \A ii \in 1..n_samples : fit[c][ii] \in ColumnValues(c)
               /\ df' = [c \in assigned_columns(script) |-> fit[c]] @@ df
               /\ n_clusters' = count_clusters(fit["cluster"])
               /\ n_noise' = count_noise(fit["cluster"])
               /\ tree_df' \in FittedTrees
               /\ cluster_map' = ClusterMapOf({0})
               /\ attrs' = attrs \cup {"clusterer", "n_clusters", "n_noise"}
               /\ log' = Append(log, "cluster_embeddings")
               /\ Advance
       ELSE /\ Raise
            /\ UNCHANGED <<df, attrs, log, n_clusters, n_noise, tree_df, cluster_map>>
    /\ UNCHANGED <<script, flags, n_samples, cluster_descriptions, color_map, tpc, hierarchy_txt, hierarchy_html, pairVars, sentVars, sampVars, optVars, reportVars, tripleVars, assessVars>>

\* viz.extract_cluster_keywords() called by visualize_embeddings itself
\* (Predicate with WordNet.py).
ExtractClusterKeywords ==
    /\ Running("extract_cluster_keywords")
    /\ IF "cluster" \in DOMAIN df
       THEN /\ cluster_descriptions' = extract_cluster_keywords(df)
            /\ attrs' = attrs \cup {"cluster_descriptions"}
            /\ log' = Append(log, "extract_cluster_keywords")
            /\ Advance
       ELSE /\ Raise
            /\ UNCHANGED <<cluster_descriptions, attrs, log>>
    /\ UNCHANGED <<script, flags, df, n_samples, n_clusters, n_noise, color_map, treeVars, pairVars, sentVars, sampVars, optVars, reportVars, tripleVars, assessVars>>

\* The tests answered as if the instance had none of the attributes.
Lacking_everything(s, have) == s

\* The elements of s that are not in have, in order.
Lacking(s, have) ==
    LET RECURSIVE Pick(_)
        Pick(t) == IF t = <<>> THEN <<>>
                   ELSE (IF Head(t) \in have THEN <<>> ELSE <<Head(t)>>) \o Pick(Tail(t))
    IN  Pick(s)

\* A report method: the attributes it lacks are built first, then the
\* instance is read and the file written.
Export(method) ==
    /\ LET need == Lacking(ensured(script, method), attrs)
           built == { need[k] : k \in DOMAIN need }
           buildable == /\ "cluster" \in DOMAIN df
                        /\ "color_map" \in built => "n_clusters" \in attrs
       IN  IF (need # <<>> /\ ~buildable) \/ ~(reads(script, method) \subseteq attrs \cup built)
           THEN /\ Raise
                /\ UNCHANGED <<attrs, cluster_descriptions, color_map, log>>
           ELSE /\ attrs' = attrs \cup built
                /\ cluster_descriptions' =
                      IF "cluster_descriptions" \in built
                      THEN extract_cluster_keywords(df) ELSE cluster_descriptions
                /\ color_map' =
                      IF "color_map" \in built
                      THEN generate_cluster_colors(df) ELSE color_map
                /\ log' = log \o <<method>> \o [k \in DOMAIN need |-> builder(need[k])]
                              \o output_files(script, method)
                /\ Advance
    /\ UNCHANGED <<script, flags, df, n_samples, n_clusters, n_noise, treeVars, pairVars, sentVars, sampVars, optVars, reportVars, tripleVars, assessVars>>

CreateBeautifulVisualization ==
    /\ Running("create_beautiful_visualization")
    /\ Export("create_beautiful_visualization")

ExportHierarchicalClusteringResults ==
    /\ Running("export_hierarchical_clustering_results")
    /\ Export("export_hierarchical_clustering_results")

ExportHierarchicalReportHtml ==
    /\ Running("export_hierarchical_report_html")
    /\ Export("export_hierarchical_report_html")

CreateInteractiveClusterReport ==
    /\ Running("create_interactive_cluster_report")
    /\ Export("create_interactive_cluster_report")


NextPipe ==
    \/ Construct
    \/ ReduceDimensions
    \/ Assess2dParameters
    \/ ClusterEmbeddings
    \/ ExtractClusterKeywords
    \/ CreateBeautifulVisualization
    \/ ExportHierarchicalClusteringResults
    \/ ExportHierarchicalReportHtml
    \/ CreateInteractiveClusterReport

SpecPipe == InitPipe /\ [][NextPipe]_vars

(***************************************************************************)
(* Notions the claims about the pipeline are stated with.                  *)
(***************************************************************************)
clustered == "clusterer" \in attrs

\* Every row of the table has a value in column col.
EveryRowCarries(col) ==
    /\ col \in DOMAIN df
    /\ DOMAIN df[col] = 1..n_samples
    /\ \A ii \in 1..n_samples : df[col][ii] \in ColumnValues(col)

RECURSIVE SumOfSizes(_, _)
SumOfSizes(descs, ids) ==
    IF ids = {} THEN 0
    ELSE LET c == CHOOSE c \in ids : TRUE
         IN  descs[c].size + SumOfSizes(descs, ids \ {c})

Before(ii, event) == \E j \in 1..(ii - 1) : log[j] = event

\* The method that wrote the file logged at index ii: the last method logged
\* before it.
WriterOf(ii) ==
    LET calls == { j \in 1..(ii - 1) : log[j] \in
                     {"create_beautiful_visualization",
                      "export_hierarchical_clustering_results",
                      "export_hierarchical_report_html",
                      "create_interactive_cluster_report"} }
    IN  log[CHOOSE j \in calls : \A k \in calls : k <= j]

(***************************************************************************)
(* C5: after cluster_embeddings, in every clustering script, every row     *)
(* carries a cluster id (-1 for noise), a membership probability and an    *)
(* outlier score.                                                          *)
(***************************************************************************)
\* As claimed, for all four scripts.
C5_Original ==
    clustered =>
       /\ EveryRowCarries("cluster")
       /\ EveryRowCarries("probability")
       /\ EveryRowCarries("outlier_score")

\* Amended: every row carries a cluster id and a probability in every script,
\* and an outlier score in every script but Cluster Assessment.py, whose table
\* has no outlier score column.
C5_ClusterColumns ==
    clustered =>
       /\ EveryRowCarries("cluster")
       /\ EveryRowCarries("probability")
       /\ IF script = "assessment"
          THEN "outlier_score" \notin DOMAIN df
          ELSE EveryRowCarries("outlier_score")

\* Cluster Assessment.py has clustered a table with a noise row and a
\* clustered row.
C5_Witness ==
    /\ clustered
    /\ script = "assessment"
    /\ \E ii, j \in 1..n_samples : df["cluster"][ii] = -1 /\ df["cluster"][j] = 0

(***************************************************************************)
(* C6: after extract_cluster_keywords, cluster_descriptions has exactly    *)
(* one descriptor per cluster id of the table other than -1 and none for   *)
(* -1, each descriptor's size is the number of rows of its cluster, the    *)
(* sizes plus n_noise add up to n_samples, and there are n_clusters        *)
(* descriptors.                                                            *)
(***************************************************************************)
C6_DescriptorsPartitionRows ==
    "cluster_descriptions" \in attrs =>
       /\ DOMAIN cluster_descriptions =
             { c \in Labels : c # -1 /\ \E ii \in 1..n_samples : df["cluster"][ii] = c }
       /\ \A c \in DOMAIN cluster_descriptions :
             cluster_descriptions[c].size
                = Cardinality({ ii \in 1..n_samples : df["cluster"][ii] = c })
       /\ SumOfSizes(cluster_descriptions, DOMAIN cluster_descriptions) + n_noise
             = n_samples
       /\ Cardinality(DOMAIN cluster_descriptions) = n_clusters

\* Descriptors exist for a table with a noise row and a cluster of two rows.
C6_Witness ==
    /\ "cluster_descriptions" \in attrs
    /\ n_noise = 1
    /\ \E c \in DOMAIN cluster_descriptions : cluster_descriptions[c].size = 2

(***************************************************************************)
(* C7: in every run of visualize_embeddings the table is loaded, reduced,  *)
(* clustered, summarized and rendered in that order: no file is written    *)
(* before cluster_embeddings has completed, cluster_embeddings runs only   *)
(* after reduce_dimensions, and cluster_descriptions and color_map exist   *)
(* before the first export that reads them (no call fails for a missing    *)
(* attribute).                                                             *)
(***************************************************************************)
C7_PipelineOrder ==
    script # "assessment" =>
       /\ status # "failed"
       /\ \A ii \in DOMAIN log :
             /\ log[ii] = "reduce_dimensions" => Before(ii, "__init__")
             /\ log[ii] = "cluster_embeddings" => Before(ii, "reduce_dimensions")
             /\ log[ii] \in {"extract_cluster_keywords", "generate_cluster_colors"}
                   => Before(ii, "cluster_embeddings")
             /\ log[ii] \in OutputFiles =>
                   /\ Before(ii, "cluster_embeddings")
                   /\ "cluster_descriptions" \in reads(script, WriterOf(ii))
                         => Before(ii, "extract_cluster_keywords")
                   /\ "color_map" \in reads(script, WriterOf(ii))
                         => Before(ii, "generate_cluster_colors")

\* A finished run of the HDBSCAN+Gemini script with only the HTML hierarchy
\* export switched on, as its __main__ block calls it.
C7_Witness ==
    /\ script = "gemini"
    /\ status = "done"
    /\ flags = [text |-> FALSE, html |-> TRUE, report |-> FALSE]
    /\ \E ii \in DOMAIN log : log[ii] = "hierarchical_report.html"

(***************************************************************************)
(* C17: the report exporters only read the clustering result: they leave   *)
(* every row's cluster id, probability and outlier score, n_clusters,      *)
(* n_noise and the condensed tree unchanged, and their only effect on the  *)
(* visualizer's state is the first-time creation of cluster_descriptions   *)
(* and color_map.                                                          *)
(***************************************************************************)
Exporters ==
    {"export_hierarchical_clustering_results", "export_hierarchical_report_html",
     "create_interactive_cluster_report", "create_beautiful_visualization"}

\* What the step has appended to the log.
Logged == { log'[k] : k \in (Len(log) + 1)..Len(log') }

ExporterFrame ==
    (\E method \in Exporters : Running(method)) =>
       /\ df' = df
       /\ n_samples' = n_samples
       /\ n_clusters' = n_clusters
       /\ n_noise' = n_noise
       /\ tree_df' = tree_df
       /\ cluster_map' = cluster_map
       /\ attrs \subseteq attrs'
       /\ attrs' \ attrs \subseteq {"cluster_descriptions", "color_map"}
       /\ "cluster_descriptions" \in attrs =>
             /\ cluster_descriptions' = cluster_descriptions
             /\ "extract_cluster_keywords" \notin Logged
       /\ "color_map" \in attrs =>
             /\ color_map' = color_map
             /\ "generate_cluster_colors" \notin Logged

C17_ExportersOnlyRead == [][ExporterFrame]_vars

\* All four exporters have run on a clustered table with noise: the first
\* created both attributes, the later ones found them.
C17_Witness ==
    /\ script = "claim"
    /\ status = "done"
    /\ Len(log) = 13
    /\ log[Len(log)] = "cluster_analysis_report.html"
    /\ {"cluster_descriptions", "color_map"} \subseteq attrs
    /\ tree_df # <<>>
    /\ n_noise > 0 /\ n_clusters > 0

(***************************************************************************)
(* SpecPairs: generate_previous_current_pairs.  An utterance is its role   *)
(* and its position in the input (its text is not looked at); None is      *)
(* written <<>>.                                                           *)
(***************************************************************************)
Roles == {"Interviewer", "Interviewee", "Narrator"}

NoneValue == <<>>

Utterance(role, pos) == [role |-> role, pos |-> pos]

\* The transcripts: any sequence of roles, each utterance at its position.
Transcripts ==
    UNION { { [k \in 1..n |-> Utterance(r[k], k)] : r \in [1..n -> Roles] } :
            n \in 0..MaxUtterances }

\* A file of an earlier run.
StaleFile == [previous_utterances |-> NoneValue, current_utterance |-> NoneValue]

role_test_or(interviewer, interviewee) ==
    interviewer.role = "Interviewer" \/ interviewee.role = "Interviewee"

\* interviewer.get('role') == 'Interviewer' and interviewee.get('role') == 'Interviewee'
role_test(interviewer, interviewee) ==
    interviewer.role = "Interviewer" /\ interviewee.role = "Interviewee"

previous_of_same_index(ps, k) == IF k = 0 THEN NoneValue ELSE ps[k + 1]

\* previous_utterances = None if idx == 0 else pairs[idx - 1]
\* (ps is indexed from 1, so Python's pairs[idx - 1] is ps[idx])
previous_of(ps, k) == IF k = 0 THEN NoneValue ELSE ps[k]

pair_number_zero_based(k) == k

\* pair_number = idx + 1
pair_number_of(k) == k + 1

InitPairs ==
    /\ script = "generate_previous_current_pairs"
    /\ data \in Transcripts
    /\ \E k \in 0..MaxStale : files = [n \in 1..k |-> StaleFile]
    /\ ppc = "pairing"
    /\ i = 1
    /\ pairs = <<>>
    /\ idx = 0
    /\ pair_count = 0
    /\ written = <<>>
    /\ returned = 0
    /\ SentencesIdle
    /\ SamplesIdle
    /\ OptimizeIdle
    /\ ReportIdle
    /\ TriplesIdle
    /\ AssessIdle
    /\ PipeIdle
    /\ tree_df = <<>>
    /\ cluster_map = <<>>
    /\ tpc = "idle"
    /\ hierarchy_txt = <<>>
    /\ hierarchy_html = <<>>

\* One iteration of `while i < len(data) - 1` (i counted from 0 there).
PairingStep ==
    /\ ppc = "pairing"
    /\ i < Len(data)
    /\ IF role_test(data[i], data[i + 1])
       THEN /\ pairs' = Append(pairs, <<data[i], data[i + 1]>>)
            /\ i' = i + 2
       ELSE /\ pairs' = pairs
            /\ i' = i + 1
    /\ UNCHANGED <<data, ppc, idx, pair_count, files, written, returned>>
    /\ UNCHANGED <<script, treeVars, pipeVars, sentVars, sampVars, optVars, reportVars, tripleVars, assessVars>>

\* The while loop ends; pair_count = 0 and the for loop starts.
PairingDone ==
    /\ ppc = "pairing"
    /\ ~(i < Len(data))
    /\ ppc' = "writing"
    /\ idx' = 0
    /\ pair_count' = 0
    /\ UNCHANGED <<data, i, pairs, files, written, returned>>
    /\ UNCHANGED <<script, treeVars, pipeVars, sentVars, sampVars, optVars, reportVars, tripleVars, assessVars>>

\* One iteration of `for idx, current_pair in enumerate(pairs)`.
WritePairFile ==
    /\ ppc = "writing"
    /\ idx < Len(pairs)
    /\ LET current_pair == pairs[idx + 1]
           pair_number == pair_number_of(idx)
           output_data == [previous_utterances |-> previous_of(pairs, idx),
                           current_utterance |-> current_pair]
       IN  /\ files' = (pair_number :> output_data) @@ files
           /\ written' = Append(written, pair_number)
    /\ pair_count' = pair_count + 1
    /\ idx' = idx + 1
    /\ UNCHANGED <<data, ppc, i, pairs, returned>>
    /\ UNCHANGED <<script, treeVars, pipeVars, sentVars, sampVars, optVars, reportVars, tripleVars, assessVars>>

\* return pair_count
ReturnPairCount ==
    /\ ppc = "writing"
    /\ ~(idx < Len(pairs))
    /\ returned' = pair_count
    /\ ppc' = "returned"
    /\ UNCHANGED <<data, i, pairs, idx, pair_count, files, written>>
    /\ UNCHANGED <<script, treeVars, pipeVars, sentVars, sampVars, optVars, reportVars, tripleVars, assessVars>>

NextPairs == PairingStep \/ PairingDone \/ WritePairFile \/ ReturnPairCount

SpecPairs == InitPairs /\ [][NextPairs]_vars

(***************************************************************************)
(* Notions the claims about the pair files are stated with.                *)
(***************************************************************************)
\* The positions at which an Interviewer utterance is directly followed by an
\* Interviewee utterance.  Two such positions never overlap.
PairPositions ==
    { p \in 1..(Len(data) - 1) :
        data[p].role = "Interviewer" /\ data[p + 1].role = "Interviewee" }

\* The N-th Interviewer+Interviewee pair of the input, in input order.
NthPair(N) ==
    LET order == SortedAsc(PairPositions)
    IN  <<data[order[N]], data[order[N] + 1]>>

WrittenNumbers == { written[k] : k \in DOMAIN written }

\* The pairs held by the files this call has written.
WrittenPairs ==
    ({ files[N].current_utterance : N \in WrittenNumbers }
     \cup { files[N].previous_utterances : N \in WrittenNumbers }) \ {NoneValue}

(***************************************************************************)
(* C8: in every file "Previous-current pair - N.json" written by the call, *)
(* previous_utterances is null for N = 1 and otherwise the                 *)
(* current_utterance of file N-1, and current_utterance is the N-th        *)
(* Interviewer+Interviewee pair of the input, in input order.              *)
(***************************************************************************)
C8_PreviousIsCurrentOfPredecessor ==
    \A N \in WrittenNumbers :
       /\ N \in 1..Cardinality(PairPositions)
       /\ files[N].current_utterance = NthPair(N)
       /\ IF N = 1
          THEN files[N].previous_utterances = NoneValue
          ELSE /\ N - 1 \in WrittenNumbers
               /\ files[N].previous_utterances = files[N - 1].current_utterance

\* The call has returned after writing two files from a transcript in which
\* an utterance between the two pairs belongs to no pair.
C8_Witness ==
    /\ ppc = "returned"
    /\ Len(written) = 2
    /\ \E p \in 1..Len(data) :
          /\ files[1].current_utterance[2].pos < p
          /\ p < files[2].current_utterance[1].pos

(***************************************************************************)
(* C9: every pair the call emits consists of exactly two utterances that   *)
(* are adjacent in the input, an "Interviewer" utterance followed by an    *)
(* "Interviewee" utterance.                                                *)
(***************************************************************************)
IsInterviewPair(pr) ==
    /\ Len(pr) = 2
    /\ pr[1].pos \in 1..Len(data) /\ pr[1] = data[pr[1].pos]
    /\ pr[2].pos = pr[1].pos + 1
    /\ pr[2].pos \in 1..Len(data) /\ pr[2] = data[pr[2].pos]
    /\ pr[1].role = "Interviewer"
    /\ pr[2].role = "Interviewee"

C9_PairsAreInterviewerInterviewee ==
    /\ \A k \in DOMAIN pairs : IsInterviewPair(pairs[k])
    /\ \A pr \in WrittenPairs : IsInterviewPair(pr)

\* A file has been written from a transcript that also has two adjacent
\* utterances of other roles, which form no pair.
C9_Witness ==
    /\ written # <<>>
    /\ \E p \in 1..(Len(data) - 1) :
          /\ data[p].role = "Interviewee"
          /\ data[p + 1].role = "Interviewer"
    /\ \E p \in 1..(Len(data) - 1) :
          /\ data[p].role = "Interviewer"
          /\ data[p + 1].role = "Narrator"

(***************************************************************************)
(* C10: the call returns the number of files it wrote, which is the number *)
(* of pairs found, and the files written are numbered 1..count without gap *)
(* or duplicate.                                                           *)
(***************************************************************************)
C10_ReturnsNumberOfFiles ==
    /\ written = [k \in 1..Len(written) |-> k]
    /\ ppc = "returned" =>
          /\ returned = Len(written)
          /\ returned = Len(pairs)
          /\ returned = Cardinality(PairPositions)
          /\ WrittenNumbers = 1..returned

\* The call has returned 2 with a stale third file left in the directory.
C10_Witness ==
    /\ ppc = "returned"
    /\ returned = 2
    /\ DOMAIN files = 1..3

(***************************************************************************)
(* SpecSentences: transform_utterance_to_sentences.  The text of an        *)
(* utterance is the sequence of pieces the sentence pattern splits it      *)
(* into; a piece is "" when nothing but whitespace is left of it.          *)
(***************************************************************************)
Orders == 9..MaxOrder

Pieces == {"", "s"}

Texts == UNION { [1..n -> Pieces] : n \in 0..MaxChunks }

InputItems ==
    [speaker_name : {"A", "B"}, role : {"Interviewer", "Interviewee"},
     utterance : Texts, order : Orders]

\* str(n) for an integer n, as the sequence of its characters.
RECURSIVE str(_)
str(n) ==
    IF n < 0 THEN <<"-">> \o str(-n)
    ELSE IF n < 10 THEN <<n>>
    ELSE str(n \div 10) \o <<n % 10>>

\* split_into_sentences(text): the stripped pieces that are not empty.
split_into_sentences(text) == SelectSeq(text, LAMBDA piece : piece # "")

\* The format without its separator, f"{utterance_order}{idx}".
sentence_order_unseparated(utterance_order, k) == str(utterance_order) \o str(k)

\* f"{utterance_order}-{idx}"
sentence_order_of(utterance_order, k) == str(utterance_order) \o <<"-">> \o str(k)

\* sentence_objects of one item; enumerate(sentences, start=1) counts as
\* DOMAIN sentences does.
sentence_objects(utterance_order, sentences) ==
    [ n \in DOMAIN sentences |->
        [sentence |-> sentences[n],
         sentence_order |-> sentence_order_of(utterance_order, n)] ]

\* transformed_item
transformed_item(item) ==
    [speaker_name |-> item.speaker_name,
     role |-> item.role,
     utterance_order |-> item.order,
     sentences |-> sentence_objects(item.order, split_into_sentences(item.utterance))]

InitSentences ==
    /\ script = "transform_utterance_to_sentences"
    /\ data \in UNION { [1..n -> InputItems] : n \in 0..MaxItems }
    /\ sent_pc = "transforming"
    /\ transformed_data = <<>>
    /\ output_json \in { [exists |-> FALSE, content |-> <<>>],
                         [exists |-> TRUE, content |-> <<>>] }
    /\ ppc = "idle"
    /\ i = 0
    /\ pairs = <<>>
    /\ idx = 0
    /\ pair_count = 0
    /\ files = <<>>
    /\ written = <<>>
    /\ returned = 0
    /\ PipeIdle
    /\ tree_df = <<>>
    /\ cluster_map = <<>>
    /\ tpc = "idle"
    /\ hierarchy_txt = <<>>
    /\ hierarchy_html = <<>>
    /\ SamplesIdle
    /\ OptimizeIdle
    /\ ReportIdle
    /\ TriplesIdle
    /\ AssessIdle

\* One iteration of `for item in data`.
TransformItem ==
    /\ sent_pc = "transforming"
    /\ Len(transformed_data) < Len(data)
    /\ transformed_data' =
          Append(transformed_data, transformed_item(data[Len(transformed_data) + 1]))
    /\ UNCHANGED <<sent_pc, output_json>>
    /\ UNCHANGED <<script, treeVars, pipeVars, pairVars, sampVars, optVars, reportVars, tripleVars, assessVars>>

\* json.dump(transformed_data, f) after the loop
WriteSentences ==
    /\ sent_pc = "transforming"
    /\ Len(transformed_data) = Len(data)
    /\ output_json' = [exists |-> TRUE, content |-> transformed_data]
    /\ sent_pc' = "written"
    /\ UNCHANGED transformed_data
    /\ UNCHANGED <<script, treeVars, pipeVars, pairVars, sampVars, optVars, reportVars, tripleVars, assessVars>>

NextSentences == TransformItem \/ WriteSentences

SpecSentences == InitSentences /\ [][NextSentences]_vars

(***************************************************************************)
(* Notions the claim about the sentence file is stated with.               *)
(***************************************************************************)
UniqueOrders(items) ==
    \A m, n \in DOMAIN items : items[m].order = items[n].order => m = n

\* The number of pieces of a text that are sentences.
RECURSIVE CountSentences(_)
CountSentences(text) ==
    IF text = <<>> THEN 0
    ELSE (IF Head(text) = "" THEN 0 ELSE 1) + CountSentences(Tail(text))

(***************************************************************************)
(* C11: the output of transform_utterance_to_sentences has exactly one     *)
(* item per input utterance, in input order, with speaker_name and role    *)
(* copied and utterance_order equal to the input order; the k-th sentence  *)
(* of an item (k = 1, 2, ...) has sentence_order "<order>-<k>", so the     *)
(* sentence_order values are unique whenever the input orders are unique.  *)
(***************************************************************************)
C11_OneItemPerUtterance ==
    sent_pc = "written" =>
       LET out == output_json.content
       IN  /\ output_json.exists
           /\ Len(out) = Len(data)
           /\ \A n \in DOMAIN out :
                 /\ out[n].speaker_name = data[n].speaker_name
                 /\ out[n].role = data[n].role
                 /\ out[n].utterance_order = data[n].order
                 /\ Len(out[n].sentences) = CountSentences(data[n].utterance)
                 /\ \A k \in DOMAIN out[n].sentences :
                       out[n].sentences[k].sentence_order
                          = str(data[n].order) \o <<"-">> \o str(k)
           /\ UniqueOrders(data) =>
                 \A m, n \in DOMAIN out :
                    \A k \in DOMAIN out[m].sentences, l \in DOMAIN out[n].sentences :
                       out[m].sentences[k].sentence_order = out[n].sentences[l].sentence_order
                          => m = n /\ k = l

\* Two utterances with a one-digit and a two-digit order, two sentences each,
\* one of them with a piece that is dropped, have been written.
C11_Witness ==
    /\ sent_pc = "written"
    /\ Len(data) = 2
    /\ data[1].order < 10 /\ data[2].order >= 10
    /\ Len(output_json.content[1].sentences) = 1
    /\ Len(data[1].utterance) = 2
    /\ Len(output_json.content[2].sentences) = 2

(***************************************************************************)
(* SpecSamples: the sample rows extract_cluster_keywords stores for each   *)
(* cluster.  A table is column name -> values, as self.df; a row is named  *)
(* by its index.  The three text columns of a triple are one column here.  *)
(***************************************************************************)
SampleScripts == {"claim", "wordnet", "gemini"}

Triples == 1..MaxTriples

\* head(5) of the claim and WordNet reports
SampleHead == 5

SampleTables(scr) ==
    LET rows == IF scr = "gemini" THEN MaxGeminiRows ELSE MaxTableRows
        texts == IF scr = "gemini" THEN Triples ELSE {1}
    IN  UNION { [cluster : [1..n -> Labels],
                 probability : [1..n -> ProbLevels],
                 triple : [1..n -> texts]] : n \in 1..rows }

\* The orders an ascending sort can leave the rows S in.
RECURSIVE sort_values_ascending(_, _)
sort_values_ascending(table, S) ==
    IF S = {} THEN { <<>> }
    ELSE UNION { { <<x>> \o rest : rest \in sort_values_ascending(table, S \ {x}) } :
                 x \in { x \in S : \A y \in S :
                            table["probability"][x] <= table["probability"][y] } }

\* cluster_df.sort_values(by='probability', ascending=False): the orders it
\* can leave the rows S in.  The default sort is not stable, so rows of equal
\* probability come in any order.
RECURSIVE sort_values_descending(_, _)
sort_values_descending(table, S) ==
    IF S = {} THEN { <<>> }
    ELSE UNION { { <<x>> \o rest : rest \in sort_values_descending(table, S \ {x}) } :
                 x \in { x \in S : \A y \in S :
                            table["probability"][y] <= table["probability"][x] } }

\* .head(n)
head(rows, n) == SubSeq(rows, 1, IF Len(rows) < n THEN Len(rows) ELSE n)

\* row._asdict() / to_dict('records') after reset_index()
row_dict(table, x) ==
    [index |-> x, cluster |-> table["cluster"][x],
     probability |-> table["probability"][x], triple |-> table["triple"][x]]

\* The dict filled with every row of the pool, a later row replacing an
\* earlier one of the same triple.
RECURSIVE unique_triples_overwriting(_, _)
unique_triples_overwriting(table, pool) ==
    IF pool = <<>> THEN <<>>
    ELSE LET front == unique_triples_overwriting(table, SubSeq(pool, 1, Len(pool) - 1))
             last == pool[Len(pool)]
         IN  IF \E k \in DOMAIN front : table["triple"][front[k]] = table["triple"][last]
             THEN [k \in DOMAIN front |->
                     IF table["triple"][front[k]] = table["triple"][last]
                     THEN last ELSE front[k]]
             ELSE Append(front, last)

\* unique_triples: for row in top_samples_pool.itertuples(), a row is stored
\* when its triple_key is not in the dict yet; list(unique_triples.values())
\* is in insertion order.
RECURSIVE unique_triples(_, _)
unique_triples(table, pool) ==
    IF pool = <<>> THEN <<>>
    ELSE LET front == unique_triples(table, SubSeq(pool, 1, Len(pool) - 1))
             last == pool[Len(pool)]
         IN  IF \E k \in DOMAIN front : table["triple"][front[k]] = table["triple"][last]
             THEN front
             ELSE Append(front, last)

InitSamples ==
    /\ script \in SampleScripts
    /\ sample_table \in SampleTables(script)
    /\ samp_pc = "describing"
    /\ top_samples_pool = <<>>
    /\ sample_rows = <<>>
    /\ PipeIdle
    /\ PairsIdle
    /\ SentencesIdle
    /\ tree_df = <<>>
    /\ cluster_map = <<>>
    /\ tpc = "idle"
    /\ hierarchy_txt = <<>>
    /\ hierarchy_html = <<>>
    /\ OptimizeIdle
    /\ ReportIdle
    /\ TriplesIdle
    /\ AssessIdle

\* One iteration of `for cluster_id in sorted(self.df["cluster"].unique())`
\* that is not skipped: the samples of the next cluster are stored.
DescribeCluster ==
    /\ samp_pc = "describing"
    /\ described_clusters(sample_table) \ DOMAIN sample_rows # {}
    /\ LET todo == described_clusters(sample_table) \ DOMAIN sample_rows
           cluster_id == CHOOSE c \in todo : \A d \in todo : c <= d
           cluster_df == cluster_rows(sample_table, cluster_id)
       IN  \E sorted \in sort_values_descending(sample_table, cluster_df) :
              LET pool == IF script = "gemini" THEN head(sorted, PoolHead)
                          ELSE head(sorted, SampleHead)
                  chosen == IF script = "gemini"
                            THEN head(unique_triples(sample_table, pool), n_samples_to_show)
                            ELSE pool
              IN  /\ top_samples_pool' = (cluster_id :> pool) @@ top_samples_pool
                  /\ sample_rows' =
                        (cluster_id :> [k \in DOMAIN chosen |-> row_dict(sample_table, chosen[k])])
                        @@ sample_rows
    /\ UNCHANGED <<samp_pc, sample_table>>
    /\ UNCHANGED <<script, treeVars, pipeVars, pairVars, sentVars, optVars, reportVars, tripleVars, assessVars>>

\* The loop is over.
DescribeDone ==
    /\ samp_pc = "describing"
    /\ described_clusters(sample_table) \ DOMAIN sample_rows = {}
    /\ samp_pc' = "done"
    /\ UNCHANGED <<sample_table, top_samples_pool, sample_rows>>
    /\ UNCHANGED <<script, treeVars, pipeVars, pairVars, sentVars, optVars, reportVars, tripleVars, assessVars>>

NextSamples == DescribeCluster \/ DescribeDone

SpecSamples == InitSamples /\ [][NextSamples]_vars

(***************************************************************************)
(* Notions the claims about the sample rows are stated with.               *)
(***************************************************************************)
ProbabilityOf(x) == sample_table["probability"][x]

SampleIndexes(c) == { sample_rows[c][k].index : k \in DOMAIN sample_rows[c] }

\* The samples of cluster c are rows of the table, each listed once.
SamplesAreRows(c) ==
    /\ \A k \in DOMAIN sample_rows[c] :
          /\ sample_rows[c][k].index \in DOMAIN sample_table["cluster"]
          /\ sample_rows[c][k] = row_dict(sample_table, sample_rows[c][k].index)
    /\ \A k, l \in DOMAIN sample_rows[c] :
          sample_rows[c][k].index = sample_rows[c][l].index => k = l

NonIncreasing(c) ==
    \A k, l \in DOMAIN sample_rows[c] :
       k < l => sample_rows[c][k].probability >= sample_rows[c][l].probability

\* S is a set of n rows of cluster c none of which has a lower probability
\* than a row of the cluster outside S.
HighestRows(S, c, n) ==
    /\ S \subseteq cluster_rows(sample_table, c)
    /\ Cardinality(S) = n
    /\ \A x \in S : \A y \in cluster_rows(sample_table, c) \ S :
          ProbabilityOf(y) <= ProbabilityOf(x)

Smaller(a, b) == IF a < b THEN a ELSE b

(***************************************************************************)
(* C12: in the claim and WordNet reports the sample rows of a cluster are  *)
(* rows of that cluster only, min(5, cluster size) of them, the rows of    *)
(* the highest membership probability in the cluster, listed in            *)
(* non-increasing probability order.                                       *)
(***************************************************************************)
C12_TopFiveByConfidence ==
    script \in {"claim", "wordnet"} =>
       \A c \in DOMAIN sample_rows :
          /\ c # -1
          /\ SamplesAreRows(c)
          /\ \A k \in DOMAIN sample_rows[c] : sample_rows[c][k].cluster = c
          /\ Len(sample_rows[c]) = Smaller(5, Cardinality(cluster_rows(sample_table, c)))
          /\ HighestRows(SampleIndexes(c), c, Len(sample_rows[c]))
          /\ NonIncreasing(c)

\* A cluster of six rows of two probabilities has its five samples, not in
\* row order, and the row left out is not the last row of the table.
C12_Witness ==
    /\ script \in {"claim", "wordnet"}
    /\ samp_pc = "done"
    /\ \E c \in DOMAIN sample_rows :
          /\ Cardinality(cluster_rows(sample_table, c)) = 6
          /\ Len(sample_rows[c]) = 5
          /\ sample_rows[c][1].probability > sample_rows[c][5].probability
          /\ sample_rows[c][1].index > sample_rows[c][2].index
          /\ 6 \in SampleIndexes(c)

(***************************************************************************)
(* C13: in the HDBSCAN+Gemini report the sample rows of a cluster hold no  *)
(* two rows of the same triple, are at most n_samples_to_show, are drawn   *)
(* only from the pool of the highest-probability rows of the cluster, are  *)
(* in non-increasing probability order, and the row kept for a triple is   *)
(* the highest-probability row of that triple within the pool.             *)
(***************************************************************************)
PoolIndexes(c) == { top_samples_pool[c][k] : k \in DOMAIN top_samples_pool[c] }

C13_UniqueTriplesFromPool ==
    script = "gemini" =>
       \A c \in DOMAIN sample_rows :
          /\ c # -1
          /\ SamplesAreRows(c)
          /\ \A k, l \in DOMAIN sample_rows[c] :
                sample_rows[c][k].triple = sample_rows[c][l].triple => k = l
          /\ Len(sample_rows[c]) <= n_samples_to_show
          /\ HighestRows(PoolIndexes(c), c,
                         Smaller(PoolHead, Cardinality(cluster_rows(sample_table, c))))
          /\ SampleIndexes(c) \subseteq PoolIndexes(c)
          /\ NonIncreasing(c)
          /\ \A k \in DOMAIN sample_rows[c] : \A x \in PoolIndexes(c) :
                sample_table["triple"][x] = sample_rows[c][k].triple
                   => ProbabilityOf(x) <= sample_rows[c][k].probability

\* A cluster with more rows than the pool takes: two rows of the pool have
\* the same triple and different probabilities, and n_samples_to_show samples
\* are stored.
C13_Witness ==
    /\ script = "gemini"
    /\ samp_pc = "done"
    /\ \E c \in DOMAIN sample_rows :
          /\ Cardinality(cluster_rows(sample_table, c)) > PoolHead
          /\ Len(sample_rows[c]) = n_samples_to_show
          /\ \E x, y \in PoolIndexes(c) :
                /\ x # y
                /\ sample_table["triple"][x] = sample_table["triple"][y]
                /\ ProbabilityOf(x) < ProbabilityOf(y)

(***************************************************************************)
(* SpecOptimize: optimize_clustering_parameters of the claim and WordNet   *)
(* reports.  The fit of a candidate is external: its cluster count is any  *)
(* value of 0..MaxClusterCount.  The noise_ratio of a result plays no part *)
(* in the choice and is left out.                                          *)
(***************************************************************************)
\* for min_cluster_size in [20, 30, 40, 50, 75, 100, 150, 200]
min_cluster_size_candidates == <<20, 30, 40, 50, 75, 100, 150, 200>>

\* min_samples = max(5, min_cluster_size // 2)
min_samples_of(min_cluster_size) ==
    IF min_cluster_size \div 2 > 5 THEN min_cluster_size \div 2 ELSE 5

\* abs(x['n_clusters'] - sum(target_clusters_range)/2), doubled to stay in
\* the integers.
distance_to_midpoint(result, range) ==
    LET d == 2 * result.n_clusters - (range[1] + range[2])
    IN  IF d < 0 THEN -d ELSE d

\* target_clusters_range[0] <= result['n_clusters'] <= target_clusters_range[1]
in_target_range(result, range) ==
    range[1] <= result.n_clusters /\ result.n_clusters <= range[2]

\* The choice that lets a later result of the same distance win.
RECURSIVE min_by_distance_last(_, _)
min_by_distance_last(results, range) ==
    IF Len(results) = 1 THEN results[1]
    ELSE LET best == min_by_distance_last(SubSeq(results, 1, Len(results) - 1), range)
             last == results[Len(results)]
         IN  IF distance_to_midpoint(last, range) <= distance_to_midpoint(best, range)
             THEN last ELSE best

\* min(param_results, key=...): the first result of the smallest key.
RECURSIVE min_by_distance(_, _)
min_by_distance(results, range) ==
    IF Len(results) = 1 THEN results[1]
    ELSE LET best == min_by_distance(SubSeq(results, 1, Len(results) - 1), range)
             last == results[Len(results)]
         IN  IF distance_to_midpoint(last, range) < distance_to_midpoint(best, range)
             THEN last ELSE best

InitOptimize ==
    /\ script \in {"claim", "wordnet"}
    /\ opt_pc = "searching"
    /\ target_clusters_range \in
          { r \in (1..MaxClusterCount) \X (1..MaxClusterCount) : r[1] <= r[2] }
    /\ param_results = <<>>
    /\ best_params = <<>>
    /\ PipeIdle
    /\ PairsIdle
    /\ SentencesIdle
    /\ SamplesIdle
    /\ tree_df = <<>>
    /\ cluster_map = <<>>
    /\ tpc = "idle"
    /\ hierarchy_txt = <<>>
    /\ hierarchy_html = <<>>
    /\ ReportIdle
    /\ TriplesIdle
    /\ AssessIdle

\* One iteration of the loop: the candidate is fitted, its result appended,
\* and returned when its cluster count is in the target range.
EvaluateCandidate ==
    /\ opt_pc = "searching"
    /\ Len(param_results) < Len(min_cluster_size_candidates)
    /\ \E fitted_clusters \in 0..MaxClusterCount :
          LET min_cluster_size == min_cluster_size_candidates[Len(param_results) + 1]
              result == [min_cluster_size |-> min_cluster_size,
                         min_samples |-> min_samples_of(min_cluster_size),
                         n_clusters |-> fitted_clusters]
          IN  /\ param_results' = Append(param_results, result)
              /\ IF in_target_range(result, target_clusters_range)
                 THEN /\ best_params' = result
                      /\ opt_pc' = "returned"
                 ELSE UNCHANGED <<best_params, opt_pc>>
    /\ UNCHANGED target_clusters_range
    /\ UNCHANGED <<script, treeVars, pipeVars, pairVars, sentVars, sampVars, reportVars, tripleVars, assessVars>>

\* After the loop: the result closest to the midpoint is returned.
ReturnClosest ==
    /\ opt_pc = "searching"
    /\ Len(param_results) = Len(min_cluster_size_candidates)
    /\ best_params' = min_by_distance(param_results, target_clusters_range)
    /\ opt_pc' = "returned"
    /\ UNCHANGED <<target_clusters_range, param_results>>
    /\ UNCHANGED <<script, treeVars, pipeVars, pairVars, sentVars, sampVars, reportVars, tripleVars, assessVars>>

NextOptimize == EvaluateCandidate \/ ReturnClosest

SpecOptimize == InitOptimize /\ [][NextOptimize]_vars

(***************************************************************************)
(* C14: optimize_clustering_parameters evaluates the min_cluster_size      *)
(* candidates 20, 30, 40, 50, 75, 100, 150, 200 in that order, each with   *)
(* min_samples = max(5, min_cluster_size // 2); it returns the first       *)
(* candidate whose cluster count is in the inclusive target range and      *)
(* evaluates no later one; when none is in range it returns the evaluated  *)
(* candidate whose count is closest to the midpoint of the range, the      *)
(* smallest min_cluster_size winning ties.                                 *)
(***************************************************************************)
InRange(n) == target_clusters_range[1] <= n /\ n <= target_clusters_range[2]

\* Twice the distance of n from the midpoint of the range.
TwiceOff(n) ==
    LET twice == 2 * n - target_clusters_range[1] - target_clusters_range[2]
    IN  IF twice >= 0 THEN twice ELSE 0 - twice

C14_FirstInRangeElseClosest ==
    /\ Len(param_results) <= 8
    /\ \A k \in DOMAIN param_results :
          /\ param_results[k].min_cluster_size = <<20, 30, 40, 50, 75, 100, 150, 200>>[k]
          /\ param_results[k].min_samples = <<10, 15, 20, 25, 37, 50, 75, 100>>[k]
          \* no candidate is evaluated after one in range
          /\ k < Len(param_results) => ~InRange(param_results[k].n_clusters)
    /\ opt_pc = "returned" =>
          /\ \E k \in DOMAIN param_results : best_params = param_results[k]
          /\ IF \E k \in DOMAIN param_results : InRange(param_results[k].n_clusters)
             THEN best_params = param_results[Len(param_results)]
             ELSE /\ Len(param_results) = 8
                  /\ \A k \in DOMAIN param_results :
                        \/ TwiceOff(best_params.n_clusters) < TwiceOff(param_results[k].n_clusters)
                        \/ /\ TwiceOff(best_params.n_clusters) = TwiceOff(param_results[k].n_clusters)
                           /\ best_params.min_cluster_size <= param_results[k].min_cluster_size
    /\ opt_pc = "searching" => \A k \in DOMAIN param_results : ~InRange(param_results[k].n_clusters)

\* No candidate was in range; the one returned ties with a later candidate of
\* another cluster count and is neither the first nor the last candidate.
C14_Witness ==
    /\ opt_pc = "returned"
    /\ Len(param_results) = 8
    /\ ~InRange(best_params.n_clusters)
    /\ best_params.min_cluster_size \in {30, 40, 50, 75, 100, 150}
    /\ \E k \in DOMAIN param_results :
          /\ param_results[k].min_cluster_size > best_params.min_cluster_size
          /\ param_results[k].n_clusters # best_params.n_clusters
          /\ TwiceOff(param_results[k].n_clusters) = TwiceOff(best_params.n_clusters)

(***************************************************************************)
(* SpecReport: generate_html_report.  The whole body runs inside           *)
(* try / except Exception, whose handler prints the error and calls        *)
(* sys.exit(1).  What the analysis computes is left out: only whether it   *)
(* raises matters here.  A turn that is no JSON object raises at           *)
(* turn.get; the rendering of the template can raise on any data.          *)
(***************************************************************************)
\* The steps of generate_html_report with the output opened before the
\* template is rendered.
report_steps_open_first ==
    <<"get_template", "json_load", "isinstance_list", "analysis",
      "open_output", "render", "write_output">>

\* The steps of generate_html_report, in program order.
report_steps ==
    <<"get_template", "json_load", "isinstance_list", "analysis",
      "render", "open_output", "write_output">>

JsonInputs ==
    [file : {"valid", "missing", "invalid_json"},
     root : {"list", "object", "string"},
     turns : UNION { [1..n -> {"object", "string"}] : n \in 0..MaxTurns }]

OutputStates ==
    { [exists |-> FALSE, content |-> ""], [exists |-> TRUE, content |-> "old"] }

InitReport ==
    /\ script = "generate_report_modern"
    /\ report_pc = 1
    /\ report_status = "running"
    /\ template_file \in {"present", "missing", "syntax_error"}
    /\ json_input \in JsonInputs
    /\ output_html \in OutputStates
    /\ output_before = output_html
    /\ stderr = <<>>
    /\ failed_step = ""
    /\ PipeIdle
    /\ PairsIdle
    /\ SentencesIdle
    /\ SamplesIdle
    /\ OptimizeIdle
    /\ tree_df = <<>>
    /\ cluster_map = <<>>
    /\ tpc = "idle"
    /\ hierarchy_txt = <<>>
    /\ hierarchy_html = <<>>
    /\ TriplesIdle
    /\ AssessIdle

AtStep(step) ==
    /\ report_status = "running"
    /\ report_pc \in DOMAIN report_steps
    /\ report_steps[report_pc] = step

\* The step returns: the next statement runs (after the last one the
\* function returns).
StepDone ==
    /\ report_pc' = report_pc + 1
    /\ report_status' = IF report_pc = Len(report_steps) THEN "returned" ELSE "running"
    /\ UNCHANGED <<stderr, failed_step>>

\* except Exception as e: print(..., file=sys.stderr); sys.exit(1)
except_Exception(step) ==
    /\ stderr' = Append(stderr, "[ERROR] An unexpected error occurred")
    /\ report_status' = "exit_1"
    /\ failed_step' = step
    /\ UNCHANGED report_pc

\* template = env.get_template(TEMPLATE_FILE)
GetTemplate ==
    /\ AtStep("get_template")
    /\ IF template_file = "present" THEN StepDone ELSE except_Exception("get_template")
    /\ UNCHANGED <<template_file, json_input, output_html, output_before>>
    /\ UNCHANGED <<script, treeVars, pipeVars, pairVars, sentVars, sampVars, optVars, tripleVars, assessVars>>

\* with open(json_path) as f: speaker_turns_data = json.load(f)
JsonLoad ==
    /\ AtStep("json_load")
    /\ IF json_input.file = "valid" THEN StepDone ELSE except_Exception("json_load")
    /\ UNCHANGED <<template_file, json_input, output_html, output_before>>
    /\ UNCHANGED <<script, treeVars, pipeVars, pairVars, sentVars, sampVars, optVars, tripleVars, assessVars>>

\* if not isinstance(speaker_turns_data, list): raise TypeError(...)
IsinstanceList ==
    /\ AtStep("isinstance_list")
    /\ IF json_input.root = "list" THEN StepDone ELSE except_Exception("isinstance_list")
    /\ UNCHANGED <<template_file, json_input, output_html, output_before>>
    /\ UNCHANGED <<script, treeVars, pipeVars, pairVars, sentVars, sampVars, optVars, tripleVars, assessVars>>

\* Steps 3 and 4: the loop over the turns and the statistics.
Analysis ==
    /\ AtStep("analysis")
    /\ IF \A n \in DOMAIN json_input.turns : json_input.turns[n] = "object"
       THEN StepDone ELSE except_Exception("analysis")
    /\ UNCHANGED <<template_file, json_input, output_html, output_before>>
    /\ UNCHANGED <<script, treeVars, pipeVars, pairVars, sentVars, sampVars, optVars, tripleVars, assessVars>>

\* html_content = template.render(...)
Render ==
    /\ AtStep("render")
    /\ \E raises \in BOOLEAN :
          IF raises THEN except_Exception("render") ELSE StepDone
    /\ UNCHANGED <<template_file, json_input, output_html, output_before>>
    /\ UNCHANGED <<script, treeVars, pipeVars, pairVars, sentVars, sampVars, optVars, tripleVars, assessVars>>

\* with open(output_path, 'w') as f: the file is created or truncated.
OpenOutput ==
    /\ AtStep("open_output")
    /\ \E raises \in BOOLEAN :
          IF raises
          THEN /\ except_Exception("open_output")
               /\ UNCHANGED output_html
          ELSE /\ StepDone
               /\ output_html' = [exists |-> TRUE, content |-> ""]
    /\ UNCHANGED <<template_file, json_input, output_before>>
    /\ UNCHANGED <<script, treeVars, pipeVars, pairVars, sentVars, sampVars, optVars, tripleVars, assessVars>>

\* f.write(html_content)
WriteOutput ==
    /\ AtStep("write_output")
    /\ \E raises \in BOOLEAN :
          IF raises
          THEN /\ except_Exception("write_output")
               /\ output_html' = [exists |-> TRUE, content |-> "partial"]
          ELSE /\ StepDone
               /\ output_html' = [exists |-> TRUE, content |-> "report"]
    /\ UNCHANGED <<template_file, json_input, output_before>>
    /\ UNCHANGED <<script, treeVars, pipeVars, pairVars, sentVars, sampVars, optVars, tripleVars, assessVars>>

NextReport ==
    \/ GetTemplate
    \/ JsonLoad
    \/ IsinstanceList
    \/ Analysis
    \/ Render
    \/ OpenOutput
    \/ WriteOutput

SpecReport == InitReport /\ [][NextReport]_vars

(***************************************************************************)
(* C15: when loading the template, reading or parsing the JSON, the check  *)
(* that the JSON root is a list, the analysis, or the rendering fails,     *)
(* generate_html_report prints an error and exits with status 1, and the   *)
(* output file is neither created nor modified.                            *)
(***************************************************************************)
FailuresBeforeOutput ==
    {"get_template", "json_load", "isinstance_list", "analysis", "render"}

C15_FailureLeavesOutputAlone ==
    /\ failed_step \in FailuresBeforeOutput =>
          /\ report_status = "exit_1"
          /\ Len(stderr) = 1
          /\ output_html = output_before
    \* and these steps do fail when their input is bad
    /\ report_status = "returned" =>
          /\ template_file = "present"
          /\ json_input.file = "valid"
          /\ json_input.root = "list"
          /\ \A n \in DOMAIN json_input.turns : json_input.turns[n] = "object"
    /\ report_status = "running" => output_html.content \in {"old", ""} /\ stderr = <<>>

\* The rendering has failed on a well-formed input while an older report
\* exists.
C15_Witness ==
    /\ failed_step = "render"
    /\ report_status = "exit_1"
    /\ output_before = [exists |-> TRUE, content |-> "old"]
    /\ Len(json_input.turns) = MaxTurns

(***************************************************************************)
(* SpecTriples: main of semantic_triple_analysis.  An utterance is the     *)
(* number of its extractions; a row of the table is the utterance and the  *)
(* extraction it comes from.  What the analyses print and draw is left     *)
(* out.                                                                    *)
(***************************************************************************)
\* The conditions of the input file: "unreadable" stands for the errors
\* load_data does not catch.
ExtractedData ==
    [file : {"valid", "missing", "invalid_json", "unreadable"},
     utterances : UNION { [1..n -> 0..MaxExtractions] : n \in 0..MaxTurns }]

GraphFiles ==
    [png : {"absent", "old"}, html : {"absent", "old"}]

\* flattened_data: one row per extraction, utterance by utterance.
RECURSIVE flattened_data(_, _)
flattened_data(utterances, n) ==
    IF n > Len(utterances) THEN <<>>
    ELSE [k \in 1..utterances[n] |-> [utterance |-> n, extraction |-> k]]
         \o flattened_data(utterances, n + 1)

\* load_data(filepath): the table it returns; pd.DataFrame() is <<>>.
load_data(input) ==
    IF input.file \in {"missing", "invalid_json"} THEN <<>>
    ELSE flattened_data(input.utterances, 1)

\* The test that lets main go on whatever was loaded.
empty_never(table) == FALSE

\* df.empty
empty(table) == table = <<>>

InitTriples ==
    /\ script = "semantic_triple_analysis"
    /\ triple_pc = "load_data"
    /\ extracted_data \in ExtractedData
    /\ triples_df = <<>>
    /\ analyses = <<>>
    /\ graph_files \in GraphFiles
    /\ PipeIdle
    /\ PairsIdle
    /\ SentencesIdle
    /\ SamplesIdle
    /\ OptimizeIdle
    /\ ReportIdle
    /\ tree_df = <<>>
    /\ cluster_map = <<>>
    /\ tpc = "idle"
    /\ hierarchy_txt = <<>>
    /\ hierarchy_html = <<>>
    /\ AssessIdle

\* df = load_data('extracted_data.json')
LoadData ==
    /\ triple_pc = "load_data"
    /\ IF extracted_data.file = "unreadable"
       THEN /\ triple_pc' = "raised"
            /\ UNCHANGED triples_df
       ELSE /\ triples_df' = load_data(extracted_data)
            /\ triple_pc' = "df_empty"
    /\ UNCHANGED <<extracted_data, analyses, graph_files>>
    /\ UNCHANGED <<script, treeVars, pipeVars, pairVars, sentVars, sampVars, optVars, reportVars, assessVars>>

\* if df.empty: print("No data loaded. Exiting."); return
CheckEmpty ==
    /\ triple_pc = "df_empty"
    /\ triple_pc' = IF empty(triples_df) THEN "returned" ELSE "analyze_frequencies"
    /\ UNCHANGED <<extracted_data, triples_df, analyses, graph_files>>
    /\ UNCHANGED <<script, treeVars, pipeVars, pairVars, sentVars, sampVars, optVars, reportVars, assessVars>>

AnalyzeFrequencies ==
    /\ triple_pc = "analyze_frequencies"
    /\ analyses' = Append(analyses, "analyze_frequencies")
    /\ triple_pc' = "analyze_patterns"
    /\ UNCHANGED <<extracted_data, triples_df, graph_files>>
    /\ UNCHANGED <<script, treeVars, pipeVars, pairVars, sentVars, sampVars, optVars, reportVars, assessVars>>

AnalyzePatterns ==
    /\ triple_pc = "analyze_patterns"
    /\ analyses' = Append(analyses, "analyze_patterns")
    /\ triple_pc' = "generate_static_graph"
    /\ UNCHANGED <<extracted_data, triples_df, graph_files>>
    /\ UNCHANGED <<script, treeVars, pipeVars, pairVars, sentVars, sampVars, optVars, reportVars, assessVars>>

\* G = generate_static_graph(df): plt.savefig('knowledge_graph.png')
GenerateStaticGraph ==
    /\ triple_pc = "generate_static_graph"
    /\ analyses' = Append(analyses, "generate_static_graph")
    /\ graph_files' = [graph_files EXCEPT !.png = "new"]
    /\ triple_pc' = "generate_interactive_graph"
    /\ UNCHANGED <<extracted_data, triples_df>>
    /\ UNCHANGED <<script, treeVars, pipeVars, pairVars, sentVars, sampVars, optVars, reportVars, assessVars>>

\* generate_interactive_graph(df): net.save_graph('knowledge_graph.html')
GenerateInteractiveGraph ==
    /\ triple_pc = "generate_interactive_graph"
    /\ analyses' = Append(analyses, "generate_interactive_graph")
    /\ graph_files' = [graph_files EXCEPT !.html = "new"]
    /\ triple_pc' = "returned"
    /\ UNCHANGED <<extracted_data, triples_df>>
    /\ UNCHANGED <<script, treeVars, pipeVars, pairVars, sentVars, sampVars, optVars, reportVars, assessVars>>

NextTriples ==
    \/ LoadData
    \/ CheckEmpty
    \/ AnalyzeFrequencies
    \/ AnalyzePatterns
    \/ GenerateStaticGraph
    \/ GenerateInteractiveGraph

SpecTriples == InitTriples /\ [][NextTriples]_vars

(***************************************************************************)
(* C16: load_data returns an empty table when the input file is missing    *)
(* or is not valid JSON, and main then stops without running any analysis  *)
(* and without writing knowledge_graph.png or knowledge_graph.html.        *)
(***************************************************************************)
C16_NoDataNoAnalysis ==
    (extracted_data.file \in {"missing", "invalid_json"} /\ triple_pc # "load_data") =>
       /\ triples_df = <<>>
       /\ triple_pc \in {"df_empty", "returned"}
       /\ analyses = <<>>
       /\ graph_files.png # "new"
       /\ graph_files.html # "new"

\* main has returned on an input that is not valid JSON while an older
\* picture is in place.
C16_Witness ==
    /\ extracted_data.file = "invalid_json"
    /\ triple_pc = "returned"
    /\ graph_files.png = "old"
    /\ graph_files.html = "absent"

(***************************************************************************)
(* SpecAssess: one call of assess_2d_parameters of Cluster Assessment.py.  *)
(* The HDBSCAN fit of a pair is external: its cluster count, its noise     *)
(* ratio and what reading relative_validity_ gives are drawn from small    *)
(* sets.                                                                   *)
(***************************************************************************)
MaxGridValues == 2
MaxParam == 3

ParamLists == UNION { [1..n -> 1..MaxParam] : n \in 0..MaxGridValues }

\* What reading clusterer.relative_validity_ can give: a score or an exception.
ValidityLevels == {"low", "high"}
ValidityOutcomes == ValidityLevels \cup {"raised"}

\* n_clusters and noise_ratio of one fit.
Fits == { [n_clusters |-> 0, noise_ratio |-> "all"],
          [n_clusters |-> 1, noise_ratio |-> "none"] }

\* The test written as `ms < mcs`.
in_grid_strict(mcs, ms) == ms < mcs

\* `if ms <= mcs:`
in_grid(mcs, ms) == ms <= mcs

\* for mcs in mcs_values: for ms in ms_values: if ms <= mcs: param_grid.append((mcs, ms))
build_param_grid(mcss, mss) ==
    Concat([a \in DOMAIN mcss |->
              Concat([b \in DOMAIN mss |->
                        IF in_grid(mcss[a], mss[b]) THEN << <<mcss[a], mss[b]>> >> ELSE <<>>])])

\* try: dbcv_score = clusterer.relative_validity_ / except Exception: dbcv_score = np.nan
dbcv_score_of(outcome) == IF outcome = "raised" THEN "nan" ELSE outcome

InitAssess ==
    /\ script = "assessment"
    /\ mcs_values \in ParamLists
    /\ ms_values \in ParamLists
    /\ assess_pc = "grid"
    /\ param_grid = <<>>
    /\ validity = <<>>
    /\ assessment_results = <<>>
    /\ tree_df = <<>>
    /\ cluster_map = <<>>
    /\ tpc = "idle"
    /\ hierarchy_txt = <<>>
    /\ hierarchy_html = <<>>
    /\ PipeIdle
    /\ PairsIdle
    /\ SentencesIdle
    /\ SamplesIdle
    /\ OptimizeIdle
    /\ ReportIdle
    /\ TriplesIdle

\* results = [], param_grid = [] and the two nested loops that fill the grid.
BuildParamGrid ==
    /\ assess_pc = "grid"
    /\ param_grid' = build_param_grid(mcs_values, ms_values)
    /\ assessment_results' = <<>>
    /\ assess_pc' = "assessing"
    /\ UNCHANGED <<script, mcs_values, ms_values, validity, treeVars, pipeVars, pairVars, sentVars, sampVars, optVars, reportVars, tripleVars>>

\* One turn of `for mcs, ms in tqdm(param_grid)`: the fit, its counts, the
\* guarded read of relative_validity_ and results.append.
AssessPair ==
    /\ assess_pc = "assessing"
    /\ Len(assessment_results) < Len(param_grid)
    /\ \E fit \in Fits, outcome \in ValidityOutcomes :
          LET pair == param_grid[Len(assessment_results) + 1]
          IN  /\ validity' = Append(validity, outcome)
              /\ assessment_results' =
                    Append(assessment_results,
                           [min_cluster_size |-> pair[1], min_samples |-> pair[2],
                            n_clusters |-> fit.n_clusters, noise_ratio |-> fit.noise_ratio,
                            dbcv_score |-> dbcv_score_of(outcome)])
    /\ UNCHANGED <<script, assess_pc, mcs_values, ms_values, param_grid, treeVars, pipeVars, pairVars, sentVars, sampVars, optVars, reportVars, tripleVars>>

\* return pd.DataFrame(results)
ReturnAssessment ==
    /\ assess_pc = "assessing"
    /\ Len(assessment_results) = Len(param_grid)
    /\ assess_pc' = "returned"
    /\ UNCHANGED <<script, mcs_values, ms_values, param_grid, validity, assessment_results, treeVars, pipeVars, pairVars, sentVars, sampVars, optVars, reportVars, tripleVars>>

NextAssess == BuildParamGrid \/ AssessPair \/ ReturnAssessment

SpecAssess == InitAssess /\ [][NextAssess]_vars

\* The positions (a, b) of the two input lists with ms_values[b] <= mcs_values[a].
GridPositions ==
    { p \in (DOMAIN mcs_values) \X (DOMAIN ms_values) : ms_values[p[2]] <= mcs_values[p[1]] }

\* Position p comes before position q: min_cluster_size first, min_samples second.
PositionBefore(p, q) == p[1] < q[1] \/ (p[1] = q[1] /\ p[2] < q[2])

(***************************************************************************)
(* C19: assess_2d_parameters returns exactly one result row for every      *)
(* (min_cluster_size, min_samples) pair of the two input lists with        *)
(* min_samples <= min_cluster_size and no row for a pair with              *)
(* min_samples > min_cluster_size, ordered by min_cluster_size first and   *)
(* min_samples second in input order; a pair whose validity score cannot   *)
(* be obtained still has its row, with a NaN score.                        *)
(***************************************************************************)
C19_OneRowPerGridPair ==
    assess_pc = "returned" =>
       /\ Len(assessment_results) = Cardinality(GridPositions)
       /\ \E f \in [DOMAIN assessment_results -> GridPositions] :
             /\ \A k, l \in DOMAIN f : k < l => PositionBefore(f[k], f[l])
             /\ \A k \in DOMAIN f :
                   /\ assessment_results[k].min_cluster_size = mcs_values[f[k][1]]
                   /\ assessment_results[k].min_samples = ms_values[f[k][2]]
       /\ \A k \in DOMAIN assessment_results :
             /\ assessment_results[k].min_samples <= assessment_results[k].min_cluster_size
             /\ validity[k] = "raised" <=> assessment_results[k].dbcv_score = "nan"
             /\ validity[k] # "raised" => assessment_results[k].dbcv_score = validity[k]

\* A returned table of three rows for a grid of two by two with one pair left
\* out (min_samples 2 > min_cluster_size 1), one pair with min_samples equal to
\* min_cluster_size, and a row whose score could not be read.
C19_Witness ==
    /\ assess_pc = "returned"
    /\ mcs_values = <<1, 2>>
    /\ ms_values = <<1, 2>>
    /\ Len(assessment_results) = 3
    /\ validity[2] = "raised"
    /\ assessment_results[2].dbcv_score = "nan"
    /\ assessment_results[3].dbcv_score = "high"

====
